---- MODULE Spec2Model ----
(***************************************************************************)
(* Model of ezib_async.connection.ConnectionManager: the connection        *)
(* lifecycle with its supervised auto-reconnect loop (_reconnect), the     *)
(* liveness poll (_monitor_connection), the disconnect-notification        *)
(* handler (_handle_disconnection) and the caller operations connect()     *)
(* and disconnect().                                                       *)
(*                                                                         *)
(* The coroutines run on one asyncio event loop: a step of the model is    *)
(* the code a coroutine runs between two suspension points (await).        *)
(* Timed waits (asyncio.sleep) are counted in whole time units by Tick;    *)
(* callbacks that are ready to run (a due timer, a cancelled task, a task  *)
(* not yet started, the resumption of an awaiting caller) run before time  *)
(* advances.  One caller issues connect() and disconnect() sequentially.   *)
(*                                                                         *)
(* The module also models the facade ezib_async.ezib.ezIBAsync, which has  *)
(* a session and a reconnect loop of its own, and the instrument registry  *)
(* ezib_async.contracts.ContractManager.  The three components share no    *)
(* state; each has its own specification.  The pure functions of the       *)
(* registry (contract_to_string) are applied to drawn inputs in KeySpec.   *)
(***************************************************************************)
EXTENDS Integers, FiniteSets, Sequences, TLC

\* ---- bounds and configuration -------------------------------------------
MaxTasks == 2               \* reconnect task objects alive at the same time
MaxReconnectAttempts == 2   \* max_reconnect_attempts given to __init__
ReconnectInterval == 2      \* reconnect_interval given to __init__
PollInterval == 5           \* asyncio.sleep(5) of _monitor_connection
MaxNotify == 2              \* deliveries of one disconnect notification

Slots == 1..MaxTasks

VARIABLES
    is_connected,           \* client.isConnected()
    disconnectedEvent,      \* times _handle_disconnection is subscribed
    reconnect_task,         \* self._reconnect_task: 0 (None) or a slot
    tasks,                  \* the reconnect task objects, by slot
    connection_check_task,  \* self._connection_check_task and its coroutine
    reconnect_attempts,     \* self._reconnect_attempts
    caller,                 \* the caller's position in connect()/disconnect()
    run_calls,              \* connectAsync calls of reconnect tasks since the last task was created
    run_clean,              \* no caller operation and no second task since then
    last_exit,              \* how the last reconnect task to finish left its loop
    last_drop,              \* whether the drop of the lost session was notified
    stale                   \* time units the poll has left a dead transport unattended

\* the facade ezIBAsync (ezib.py)
VARIABLES
    ib_connected,           \* self.ib.isConnected() of the facade's own IB
    isConnected,            \* self.isConnected
    disconnected_by_user,   \* self._disconnected_by_user
    reconnects,             \* the tasks created by _on_disconnected, by slot
    user,                   \* the user's position in connectAsync()/disconnect()
    facade_exit,            \* how the last facade reconnect task to finish left its loop
    facade_stale            \* time units the flag has claimed a dead session connected

\* the registry ContractManager (contracts.py)
VARIABLES
    ticker_ids,             \* self._ticker_ids: the key of id i is ticker_ids[i + 1]
    contracts,              \* self._contracts
    contract_details,       \* self._contract_details
    creates,                \* the create_contract coroutines in flight, by slot
    contfut,                \* the create_continuous_futures_contract coroutine
    lookups,                \* reqContractDetailsAsync calls sent
    returned                \* the ids create_contract has returned, per key, in order

connVars == <<is_connected, disconnectedEvent, reconnect_task, tasks,
              connection_check_task, reconnect_attempts, caller,
              run_calls, run_clean, last_exit, last_drop, stale>>

facadeVars == <<ib_connected, isConnected, disconnected_by_user, reconnects,
                user, facade_exit, facade_stale>>

registryVars == <<ticker_ids, contracts, contract_details, creates, contfut,
                  lookups, returned>>

\* conversions of contract tuples to keys (contract_to_string)
VARIABLES
    spec_pair,              \* the two tuples at hand
    key_pair                \* the keys computed for them so far

keyVars == <<spec_pair, key_pair>>

\* callers of the registry's queries
VARIABLES
    query                   \* the last contract_details() call and what it returned

queryVars == <<query>>

\* callers of create_combo_leg and create_combo_contract
VARIABLES
    leg,                    \* the create_combo_leg coroutine
    legs,                   \* the legs create_combo_leg has returned to the caller
    bag                     \* what create_combo_contract did last

comboVars == <<leg, legs, bag>>

\* callers of get_con_id, get_expirations, get_strikes and is_multi_contract
VARIABLES
    answer                  \* the last of these calls and what it returned

readVars == <<answer>>

\* callers of register_handler and unregister_handler of ConnectionManager
VARIABLES
    event_handlers,         \* _event_handlers: event name -> list of handlers
    client_slots,           \* the transport's events: how often each handler is subscribed
    handler_call            \* the last two calls, and what each found registered

handlerVars == <<event_handlers, client_slots, handler_call>>

\* what the three components leave alone
restVars == <<keyVars, queryVars, comboVars, readVars, handlerVars>>

vars == <<connVars, facadeVars, registryVars, restVars>>

\* ---- task objects ---------------------------------------------------------
NoTask == [pc |-> "free", timer |-> 0, cancel |-> FALSE]
NewTask == [pc |-> "start", timer |-> 0, cancel |-> FALSE]
NoMonitor == [pc |-> "none", timer |-> 0, cancel |-> FALSE]

\* a task that has been created and has not finished: not task.done()
Active(t) == t.pc \in {"start", "sleep", "connecting"}

ActiveTasks == {i \in Slots : Active(tasks[i])}

\* the caller is suspended in `await self._reconnect_task` on slot i
Awaited(i) == caller.pc = "await_reconnect" /\ caller.wait = i

\* self._reconnect_task is None or self._reconnect_task.done()
NoReconnectRunning(rt, ts) == rt = 0 \/ ~Active(ts[rt])

\* the task object a finished coroutine leaves behind: kept while something
\* still refers to it, garbage otherwise
Finished(i) ==
    IF reconnect_task = i \/ Awaited(i)
    THEN [pc |-> "done", timer |-> 0, cancel |-> FALSE]
    ELSE NoTask

\* drop the finished task objects nothing refers to any more
Collect(rt, ts) ==
    [i \in Slots |-> IF ts[i].pc = "done" /\ rt # i /\ ~Awaited(i)
                     THEN NoTask ELSE ts[i]]

FreeSlot(ts) ==
    CHOOSE i \in Slots : /\ ts[i].pc = "free"
                         /\ \A j \in Slots : ts[j].pc = "free" => i <= j

\* ---- event subscription (eventkit += and -=) --------------------------------
Subscribe(n) == n + 1
Unsubscribe(n) == IF n > 0 THEN n - 1 ELSE 0

\* ---- _handle_disconnection --------------------------------------------------
\* One call of the handler on the controller state s = [rt, ts, spawned].
HandleDisconnection(s) ==
    IF NoReconnectRunning(s.rt, s.ts)
    THEN LET kept == Collect(0, s.ts)
             i == FreeSlot(kept)
         IN [rt |-> i, ts |-> [kept EXCEPT ![i] = NewTask], spawned |-> TRUE]
    ELSE s

\* n calls of the handler in a row
RECURSIVE HandleTimes(_, _)
HandleTimes(n, s) ==
    IF n = 0 THEN s ELSE HandleTimes(n - 1, HandleDisconnection(s))

\* a slot is at hand for the task one handler call would create
RoomToSpawn(rt, ts) ==
    NoReconnectRunning(rt, ts) => \E i \in Slots : Collect(0, ts)[i].pc = "free"

Here == [rt |-> reconnect_task, ts |-> tasks, spawned |-> FALSE]

\* ---- observers ---------------------------------------------------------------
\* the transport is down, the poll is armed and no reconnect task is running
Unattended ==
    /\ ~is_connected
    /\ connection_check_task.pc = "sleep"
    /\ ~connection_check_task.cancel
    /\ ActiveTasks = {}

Min(a, b) == IF a < b THEN a ELSE b

\* the observers of a step in which the handler state went from Here to s;
\* by: "caller" when the step belongs to a caller operation, else the source
\* of the handler call.  Calls are counted in runs without intervention only.
ObserveHandler(s, by) ==
    /\ run_clean' = IF s.spawned
                    THEN ActiveTasks = {} /\ caller.pc = "idle" /\ by # "caller"
                    ELSE run_clean /\ by # "caller"
    /\ run_calls' = IF s.spawned \/ ~run_clean' THEN 0 ELSE run_calls
    /\ last_exit' = IF s.spawned THEN "none" ELSE last_exit
    /\ stale' = IF Unattended' THEN stale ELSE 0

Observe(s, by) ==
    /\ ObserveHandler(s, by)
    /\ last_drop' = IF is_connected' THEN "none" ELSE last_drop

\* the observers of a step of a reconnect task
ObserveTask(how, calls) ==
    /\ last_exit' = how
    /\ run_calls' = IF run_clean THEN calls ELSE 0
    /\ UNCHANGED run_clean
    /\ last_drop' = IF is_connected' THEN "none" ELSE last_drop
    /\ stale' = IF Unattended' THEN stale ELSE 0

\* the observers of a step in which a reconnect task left its loop
ObserveExit(how) == ObserveTask(how, run_calls)

InitConnection ==
    /\ is_connected = FALSE
    /\ disconnectedEvent = 0
    /\ reconnect_task = 0
    /\ tasks = [i \in Slots |-> NoTask]
    /\ connection_check_task = NoMonitor
    /\ reconnect_attempts = 0
    /\ caller = [pc |-> "idle", op |-> "none", from |-> "any",
                 auto |-> FALSE, wait |-> 0,
                 transport |-> "none", result |-> "none", armed |-> "no"]
    /\ run_calls = 0
    /\ run_clean = FALSE
    /\ last_exit = "none"
    /\ last_drop = "none"
    /\ stale = 0

\* the caller's operation returns (or raises) result
Idle(c, result) == [c EXCEPT !.pc = "idle", !.wait = 0, !.result = result]

\* the state the controller is in, as the caller sees it
Status ==
    IF is_connected THEN "Connected"
    ELSE IF ActiveTasks # {} THEN "Reconnecting"
    ELSE "Disconnected"

\* ---- the event loop ------------------------------------------------------------
\* reconnect task i has been cancelled (Task.cancel() was called on it)
Cancelled(i) == Active(tasks[i]) /\ tasks[i].cancel

\* a callback is ready to run now: a task to start, a cancellation or a due
\* timer to deliver, an awaiting caller to resume.  Ready callbacks run before
\* time advances and before a transport round trip completes.
Ready ==
    \/ \E i \in Slots : \/ tasks[i].pc = "start"
                        \/ Cancelled(i)
                        \/ tasks[i].pc = "sleep" /\ tasks[i].timer = 0
    \/ connection_check_task.pc = "sleep"
         /\ (connection_check_task.timer = 0 \/ connection_check_task.cancel)
    \/ caller.pc \in {"await_reconnect", "await_monitor"}

\* ---- connect() ----------------------------------------------------------------
\* connect() up to `await self.client.connectAsync(...)`
CallConnect(auto) ==
    /\ caller.pc = "idle"
    /\ caller' = [pc |-> "connecting", op |-> "connect", from |-> "any",
                  auto |-> auto, wait |-> 0,
                  transport |-> "pending", result |-> "pending", armed |-> "no"]
    /\ reconnect_attempts' = 0
    /\ UNCHANGED <<is_connected, disconnectedEvent, reconnect_task, tasks,
                   connection_check_task>>
    /\ run_clean' = FALSE
    /\ run_calls' = 0
    /\ last_exit' = "none"
    /\ UNCHANGED last_drop
    /\ stale' = IF Unattended' THEN stale ELSE 0
    /\ UNCHANGED <<facadeVars, registryVars, restVars>>

\* _setup_connection_monitoring: the poll task it leaves behind
SetupMonitor(m) ==
    IF m.pc \in {"none", "done"}
    THEN [pc |-> "sleep", timer |-> PollInterval, cancel |-> FALSE]
    ELSE m

\* _setup_connection_monitoring subscribing without the `-=` before the `+=`
SetupHandlerAdding(n) == Subscribe(n)

\* _setup_connection_monitoring: the subscriptions it leaves behind
SetupHandler(n) == Subscribe(Unsubscribe(n))

\* whether this connect() sets up the monitoring, and if so whether on a
\* controller that has a subscription or a poll task from before
Armed ==
    IF ~(caller.auto /\ reconnect_task = 0) THEN "no"
    ELSE IF disconnectedEvent > 0 \/ connection_check_task.pc = "sleep" THEN "again"
    ELSE "first"

\* connectAsync succeeded: the rest of connect()
ConnectReturns ==
    /\ caller.pc = "connecting"
    /\ ~Ready
    /\ is_connected' = TRUE
    /\ IF caller.auto /\ reconnect_task = 0
       THEN /\ disconnectedEvent' = SetupHandler(disconnectedEvent)
            /\ connection_check_task' = SetupMonitor(connection_check_task)
       ELSE UNCHANGED <<disconnectedEvent, connection_check_task>>
    /\ caller' = [Idle(caller, "connected") EXCEPT !.transport = "ok", !.armed = Armed]
    /\ UNCHANGED <<reconnect_task, tasks, reconnect_attempts>>
    /\ Observe(Here, "caller")
    /\ UNCHANGED <<facadeVars, registryVars, restVars>>

\* a connect() that reports the failure as a false return value
ConnectFailureSilent == "False"

\* what connect() hands its caller when connectAsync failed or timed out
ConnectFailure == "ConnectionError"

\* connectAsync raised: the except clause of connect()
ConnectRaises ==
    /\ caller.pc = "connecting"
    /\ ~Ready
    /\ caller' = [Idle(caller, ConnectFailure) EXCEPT !.transport = "failed"]
    /\ UNCHANGED <<is_connected, disconnectedEvent, reconnect_task, tasks,
                   connection_check_task, reconnect_attempts>>
    /\ Observe(Here, "caller")
    /\ UNCHANGED <<facadeVars, registryVars, restVars>>

\* ---- the transport drops the session -------------------------------------------
\* the session is lost and the disconnect notification is emitted n times
\* (0: the notification is missed)
Drop(n) ==
    /\ is_connected
    /\ LET calls == n * disconnectedEvent
           s == HandleTimes(calls, Here)
       IN /\ calls > 0 => RoomToSpawn(reconnect_task, tasks)
          /\ is_connected' = FALSE
          /\ reconnect_task' = s.rt
          /\ tasks' = s.ts
          /\ UNCHANGED <<disconnectedEvent, connection_check_task,
                         reconnect_attempts, caller>>
          /\ ObserveHandler(s, "notification")
          /\ last_drop' = IF calls = 0 THEN "missed" ELSE "notified"
    /\ UNCHANGED <<facadeVars, registryVars, restVars>>

\* ---- _reconnect ------------------------------------------------------------------
\* the loop with `<=` for `<` in its condition
LoopHeadOffByOne(i) ==
    IF reconnect_attempts <= MaxReconnectAttempts
    THEN /\ reconnect_attempts' = reconnect_attempts + 1
         /\ tasks' = [tasks EXCEPT ![i] = [pc |-> "sleep", timer |-> ReconnectInterval,
                                           cancel |-> FALSE]]
         /\ ObserveTask(last_exit, run_calls)
    ELSE /\ reconnect_attempts' = 0
         /\ tasks' = [tasks EXCEPT ![i] = Finished(i)]
         /\ ObserveExit("exhausted")

\* the head of the while loop: one more attempt, or give up
LoopHead(i) ==
    IF reconnect_attempts < MaxReconnectAttempts
    THEN /\ reconnect_attempts' = reconnect_attempts + 1
         /\ tasks' = [tasks EXCEPT ![i] = [pc |-> "sleep", timer |-> ReconnectInterval,
                                           cancel |-> FALSE]]
         /\ ObserveTask(last_exit, run_calls)
    ELSE /\ reconnect_attempts' = 0
         /\ tasks' = [tasks EXCEPT ![i] = Finished(i)]
         /\ ObserveExit("exhausted")

\* the first step of the coroutine, up to asyncio.sleep
TaskStart(i) ==
    /\ tasks[i].pc = "start"
    /\ ~tasks[i].cancel
    /\ UNCHANGED <<is_connected, disconnectedEvent, reconnect_task,
                   connection_check_task, caller>>
    /\ LoopHead(i)
    /\ UNCHANGED <<facadeVars, registryVars, restVars>>

\* the loop without the test of is_connected after the sleep
TaskWakeUnchecked(i) ==
    /\ tasks[i].pc = "sleep"
    /\ tasks[i].timer = 0
    /\ ~tasks[i].cancel
    /\ UNCHANGED <<is_connected, disconnectedEvent, reconnect_task,
                   connection_check_task, caller>>
    /\ tasks' = [tasks EXCEPT ![i].pc = "connecting"]
    /\ UNCHANGED reconnect_attempts
    /\ ObserveTask(last_exit, Min(run_calls + 1, MaxReconnectAttempts + 1))
    /\ UNCHANGED <<facadeVars, registryVars, restVars>>

\* the sleep is over: already connected, or call connectAsync
TaskWake(i) ==
    /\ tasks[i].pc = "sleep"
    /\ tasks[i].timer = 0
    /\ ~tasks[i].cancel
    /\ UNCHANGED <<is_connected, disconnectedEvent, reconnect_task,
                   connection_check_task, caller>>
    /\ IF is_connected
       THEN /\ reconnect_attempts' = 0
            /\ tasks' = [tasks EXCEPT ![i] = Finished(i)]
            /\ ObserveExit("already")
       ELSE /\ tasks' = [tasks EXCEPT ![i].pc = "connecting"]
            /\ UNCHANGED reconnect_attempts
            /\ ObserveTask(last_exit, Min(run_calls + 1, MaxReconnectAttempts + 1))
    /\ UNCHANGED <<facadeVars, registryVars, restVars>>

\* connectAsync succeeded inside the loop
TaskConnectOk(i) ==
    /\ tasks[i].pc = "connecting"
    /\ ~Ready
    /\ is_connected' = TRUE
    /\ reconnect_attempts' = 0
    /\ tasks' = [tasks EXCEPT ![i] = Finished(i)]
    /\ UNCHANGED <<disconnectedEvent, reconnect_task, connection_check_task, caller>>
    /\ ObserveExit("restored")
    /\ UNCHANGED <<facadeVars, registryVars, restVars>>

\* connectAsync raised inside the loop: logged, next iteration
TaskConnectFail(i) ==
    /\ tasks[i].pc = "connecting"
    /\ ~Ready
    /\ UNCHANGED <<is_connected, disconnectedEvent, reconnect_task,
                   connection_check_task, caller>>
    /\ LoopHead(i)
    /\ UNCHANGED <<facadeVars, registryVars, restVars>>

\* the cancellation caught by the inner `except Exception` of the loop, as
\* where CancelledError is an Exception: the loop goes on
TaskCancelSwallowed(i) ==
    /\ Cancelled(i)
    /\ reconnect_attempts' = reconnect_attempts
    /\ tasks' = [tasks EXCEPT ![i] = [pc |-> "sleep", timer |-> ReconnectInterval,
                                      cancel |-> FALSE]]
    /\ UNCHANGED <<is_connected, disconnectedEvent, reconnect_task,
                   connection_check_task, caller>>
    /\ ObserveTask(last_exit, run_calls)
    /\ UNCHANGED <<facadeVars, registryVars, restVars>>

\* CancelledError is thrown into the coroutine at its suspension point; a
\* coroutine that never started runs no finally clause
TaskCancelled(i) ==
    /\ Cancelled(i)
    /\ reconnect_attempts' = IF tasks[i].pc = "start" THEN reconnect_attempts ELSE 0
    /\ tasks' = [tasks EXCEPT ![i] = Finished(i)]
    /\ UNCHANGED <<is_connected, disconnectedEvent, reconnect_task,
                   connection_check_task, caller>>
    /\ ObserveExit(IF tasks[i].pc = "start" THEN "unstarted" ELSE "cancelled")
    /\ UNCHANGED <<facadeVars, registryVars, restVars>>

\* ---- _monitor_connection ------------------------------------------------------------
\* the poll testing the task handle for None only, not for done()
MonitorWakeNoneOnly ==
    /\ connection_check_task.pc = "sleep"
    /\ connection_check_task.timer = 0
    /\ ~connection_check_task.cancel
    /\ LET s == IF ~is_connected /\ reconnect_task = 0
                THEN HandleDisconnection(Here) ELSE Here
       IN /\ ~is_connected => RoomToSpawn(reconnect_task, tasks)
          /\ reconnect_task' = s.rt
          /\ tasks' = s.ts
          /\ connection_check_task' = [connection_check_task EXCEPT !.timer = PollInterval]
          /\ UNCHANGED <<is_connected, disconnectedEvent, reconnect_attempts, caller>>
          /\ Observe(s, "poll")
    /\ UNCHANGED <<facadeVars, registryVars, restVars>>

\* the poll wakes from asyncio.sleep(5), checks, and sleeps again
MonitorWake ==
    /\ connection_check_task.pc = "sleep"
    /\ connection_check_task.timer = 0
    /\ ~connection_check_task.cancel
    /\ LET s == IF ~is_connected /\ NoReconnectRunning(reconnect_task, tasks)
                THEN HandleDisconnection(Here) ELSE Here
       IN /\ ~is_connected => RoomToSpawn(reconnect_task, tasks)
          /\ reconnect_task' = s.rt
          /\ tasks' = s.ts
          /\ connection_check_task' = [connection_check_task EXCEPT !.timer = PollInterval]
          /\ UNCHANGED <<is_connected, disconnectedEvent, reconnect_attempts, caller>>
          /\ Observe(s, "poll")
    /\ UNCHANGED <<facadeVars, registryVars, restVars>>

\* the poll task has been cancelled: CancelledError at its sleep
MonitorCancelled ==
    /\ connection_check_task.pc = "sleep"
    /\ connection_check_task.cancel
    /\ connection_check_task' = [pc |-> "done", timer |-> 0, cancel |-> FALSE]
    /\ UNCHANGED <<is_connected, disconnectedEvent, reconnect_task, tasks,
                   reconnect_attempts, caller>>
    /\ Observe(Here, "poll")
    /\ UNCHANGED <<facadeVars, registryVars, restVars>>

\* ---- disconnect() --------------------------------------------------------------------
\* the last part of disconnect(): unsubscribe, then close the session, when
\* connected; c is the caller, rt and ts are the task handle and the task
\* objects at that point
CloseSession(c, rt, ts) ==
    LET left == Unsubscribe(disconnectedEvent)
        here == [rt |-> rt, ts |-> ts, spawned |-> FALSE]
        s == IF is_connected THEN HandleTimes(left, here) ELSE here
    IN /\ (is_connected /\ left > 0) => RoomToSpawn(rt, ts)
       /\ disconnectedEvent' = IF is_connected THEN left ELSE disconnectedEvent
       /\ is_connected' = FALSE
       /\ reconnect_task' = s.rt
       /\ tasks' = s.ts
       /\ caller' = Idle(c, "disconnected")
       /\ UNCHANGED reconnect_attempts
       /\ Observe(s, "caller")

\* the middle part of disconnect(): cancel the poll task and await it
CancelMonitor(c, rt, ts) ==
    IF connection_check_task.pc = "sleep"
    THEN /\ connection_check_task' = [connection_check_task EXCEPT !.cancel = TRUE]
         /\ caller' = [c EXCEPT !.pc = "await_monitor", !.wait = 0]
         /\ reconnect_task' = rt
         /\ tasks' = ts
         /\ UNCHANGED <<is_connected, disconnectedEvent, reconnect_attempts>>
         /\ Observe(Here, "caller")
    ELSE /\ UNCHANGED connection_check_task
         /\ CloseSession(c, rt, ts)

\* the caller on entry to disconnect()
Entered ==
    [pc |-> "idle", op |-> "disconnect", from |-> Status, auto |-> FALSE,
     wait |-> 0, transport |-> "none", result |-> "pending", armed |-> "no"]

\* disconnect() up to its first suspension point
CallDisconnect ==
    /\ caller.pc = "idle"
    /\ IF reconnect_task # 0 /\ Active(tasks[reconnect_task])
       THEN /\ tasks' = [tasks EXCEPT ![reconnect_task].cancel = TRUE]
            /\ caller' = [Entered EXCEPT !.pc = "await_reconnect",
                                         !.wait = reconnect_task]
            /\ UNCHANGED <<is_connected, disconnectedEvent, reconnect_task,
                           connection_check_task, reconnect_attempts>>
            /\ Observe(Here, "caller")
       ELSE CancelMonitor(Entered, reconnect_task, tasks)
    /\ UNCHANGED <<facadeVars, registryVars, restVars>>

\* `await self._reconnect_task` returns: the handle is cleared
AwaitReconnectReturns ==
    /\ caller.pc = "await_reconnect"
    /\ ~Active(tasks[caller.wait])
    /\ CancelMonitor(caller, 0, [i \in Slots |-> IF tasks[i].pc = "done" THEN NoTask
                                         ELSE tasks[i]])
    /\ UNCHANGED <<facadeVars, registryVars, restVars>>

\* `await self._connection_check_task` returns: the handle is cleared
AwaitMonitorReturns ==
    /\ caller.pc = "await_monitor"
    /\ connection_check_task.pc = "done"
    /\ connection_check_task' = NoMonitor
    /\ CloseSession(caller, reconnect_task, tasks)
    /\ UNCHANGED <<facadeVars, registryVars, restVars>>

\* ---- time -------------------------------------------------------------------------------
Elapse(t) == IF t.pc = "sleep" /\ t.timer > 0 THEN [t EXCEPT !.timer = t.timer - 1] ELSE t

\* one time unit passes
Tick ==
    /\ ~Ready
    /\ tasks' = [i \in Slots |-> Elapse(tasks[i])]
    /\ connection_check_task' = Elapse(connection_check_task)
    /\ stale' = IF Unattended THEN Min(stale + 1, PollInterval + 1) ELSE 0
    /\ UNCHANGED <<is_connected, disconnectedEvent, reconnect_task,
                   reconnect_attempts, caller, run_calls, run_clean, last_exit,
                   last_drop>>
    /\ UNCHANGED <<facadeVars, registryVars, restVars>>

\* ==== the facade ezIBAsync (ezib.py) ==================================================
MaxFacadeTasks == 2         \* facade reconnect tasks alive at the same time
FacadeMaxAttempts == 2      \* max_attempts of ezIBAsync._reconnect
FacadeInterval == 2         \* reconnect_interval of ezIBAsync._reconnect

FacadeSlots == 1..MaxFacadeTasks

NoFacadeTask == [pc |-> "free", timer |-> 0, attempt |-> 0]

FacadeActive == {i \in FacadeSlots : reconnects[i].pc # "free"}

\* __init__: the handler _on_disconnected is subscribed once, for good
InitFacade ==
    /\ ib_connected = FALSE
    /\ isConnected = FALSE
    /\ disconnected_by_user = FALSE
    /\ reconnects = [i \in FacadeSlots |-> NoFacadeTask]
    /\ user = [pc |-> "idle", op |-> "none", result |-> "none"]
    /\ facade_exit = "none"
    /\ facade_stale = 0

\* the flag claims a session that the transport does not have
FlagStale == isConnected /\ ~ib_connected

\* a callback of the facade is ready to run now
FacadeReady ==
    \E i \in FacadeSlots : \/ reconnects[i].pc = "start"
                           \/ reconnects[i].pc = "sleep" /\ reconnects[i].timer = 0

FacadeFreeSlot ==
    CHOOSE i \in FacadeSlots : /\ reconnects[i].pc = "free"
                               /\ \A j \in FacadeSlots : reconnects[j].pc = "free" => i <= j

\* _on_disconnected: the flag is cleared and, unless the user asked for the
\* disconnect, a reconnect task is created
OnDisconnected ==
    /\ isConnected' = FALSE
    /\ IF disconnected_by_user
       THEN UNCHANGED <<reconnects, facade_exit>>
       ELSE /\ \E i \in FacadeSlots : reconnects[i].pc = "free"
            /\ reconnects' = [reconnects EXCEPT ![FacadeFreeSlot] =
                                 [pc |-> "start", timer |-> 0, attempt |-> 0]]
            /\ facade_exit' = "none"

\* the gateway drops the facade's session; the notification is delivered or
\* missed
FacadeDrop(notified) ==
    /\ ib_connected
    /\ ib_connected' = FALSE
    /\ IF notified
       THEN OnDisconnected
       ELSE UNCHANGED <<isConnected, reconnects, facade_exit>>
    /\ facade_stale' = 0
    /\ UNCHANGED <<disconnected_by_user, user>>
    /\ UNCHANGED <<connVars, registryVars, restVars>>

\* connectAsync() up to `await self.ib.connectAsync(...)`
FacadeCallConnect ==
    /\ user.pc = "idle"
    /\ user' = [pc |-> "connecting", op |-> "connectAsync", result |-> "pending"]
    /\ UNCHANGED <<ib_connected, isConnected, disconnected_by_user, reconnects,
                   facade_exit, facade_stale>>
    /\ UNCHANGED <<connVars, registryVars, restVars>>

\* the user's ib.connectAsync succeeded: the flag is read from the transport
FacadeConnectOk ==
    /\ user.pc = "connecting"
    /\ ~FacadeReady
    /\ ib_connected' = TRUE
    /\ isConnected' = ib_connected'
    /\ disconnected_by_user' = FALSE
    /\ user' = [user EXCEPT !.pc = "idle", !.result = "True"]
    /\ facade_stale' = 0
    /\ UNCHANGED <<reconnects, facade_exit>>
    /\ UNCHANGED <<connVars, registryVars, restVars>>

\* the user's ib.connectAsync raised (a live session answers ok)
FacadeConnectFail ==
    /\ user.pc = "connecting"
    /\ ~FacadeReady
    /\ ~ib_connected
    /\ isConnected' = FALSE
    /\ user' = [user EXCEPT !.pc = "idle", !.result = "False"]
    /\ facade_stale' = 0
    /\ UNCHANGED <<ib_connected, disconnected_by_user, reconnects, facade_exit>>
    /\ UNCHANGED <<connVars, registryVars, restVars>>

\* disconnect(): synchronous; ib.disconnect() emits the notification when it
\* closes a live session
FacadeDisconnect ==
    /\ user.pc = "idle"
    /\ disconnected_by_user' = TRUE
    /\ ib_connected' = (ib_connected /\ ~isConnected)
    /\ isConnected' = FALSE
    /\ user' = [pc |-> "idle", op |-> "disconnect", result |-> "none"]
    /\ facade_stale' = 0
    /\ UNCHANGED <<reconnects, facade_exit>>
    /\ UNCHANGED <<connVars, registryVars, restVars>>

\* why the while loop of _reconnect is left at its head
FacadeLeft ==
    IF isConnected' THEN "restored"
    ELSE IF disconnected_by_user' THEN "stopped"
    ELSE "exhausted"

\* the head of the while loop of _reconnect, on the flags this step leaves
FacadeLoopHead(i, attempt) ==
    IF ~isConnected' /\ attempt < FacadeMaxAttempts /\ ~disconnected_by_user'
    THEN /\ reconnects' = [reconnects EXCEPT ![i] =
                              [pc |-> "sleep", timer |-> FacadeInterval,
                               attempt |-> attempt + 1]]
         /\ UNCHANGED facade_exit
    ELSE /\ reconnects' = [reconnects EXCEPT ![i] = NoFacadeTask]
         /\ facade_exit' = FacadeLeft

\* the first step of the coroutine _reconnect
FacadeTaskStart(i) ==
    /\ reconnects[i].pc = "start"
    /\ UNCHANGED <<ib_connected, isConnected, disconnected_by_user, user>>
    /\ FacadeLoopHead(i, 0)
    /\ facade_stale' = IF FlagStale' THEN facade_stale ELSE 0
    /\ UNCHANGED <<connVars, registryVars, restVars>>

\* the sleep is over: connectAsync is called
FacadeTaskWake(i) ==
    /\ reconnects[i].pc = "sleep"
    /\ reconnects[i].timer = 0
    /\ reconnects' = [reconnects EXCEPT ![i].pc = "connecting"]
    /\ UNCHANGED <<ib_connected, isConnected, disconnected_by_user, user,
                   facade_exit, facade_stale>>
    /\ UNCHANGED <<connVars, registryVars, restVars>>

\* connectAsync returned True inside the loop: break
FacadeTaskConnectOk(i) ==
    /\ reconnects[i].pc = "connecting"
    /\ ~FacadeReady
    /\ ib_connected' = TRUE
    /\ isConnected' = ib_connected'
    /\ disconnected_by_user' = FALSE
    /\ reconnects' = [reconnects EXCEPT ![i] = NoFacadeTask]
    /\ facade_exit' = "restored"
    /\ facade_stale' = 0
    /\ UNCHANGED user
    /\ UNCHANGED <<connVars, registryVars, restVars>>

\* connectAsync returned False inside the loop: next iteration
FacadeTaskConnectFail(i) ==
    /\ reconnects[i].pc = "connecting"
    /\ ~FacadeReady
    /\ ~ib_connected
    /\ isConnected' = FALSE
    /\ UNCHANGED <<ib_connected, disconnected_by_user, user>>
    /\ FacadeLoopHead(i, reconnects[i].attempt)
    /\ facade_stale' = 0
    /\ UNCHANGED <<connVars, registryVars, restVars>>

FacadeElapse(t) ==
    IF t.pc = "sleep" /\ t.timer > 0 THEN [t EXCEPT !.timer = t.timer - 1] ELSE t

\* one time unit passes
FacadeTick ==
    /\ ~FacadeReady
    /\ reconnects' = [i \in FacadeSlots |-> FacadeElapse(reconnects[i])]
    /\ facade_stale' = IF FlagStale THEN Min(facade_stale + 1, PollInterval + 1) ELSE 0
    /\ UNCHANGED <<ib_connected, isConnected, disconnected_by_user, user, facade_exit>>
    /\ UNCHANGED <<connVars, registryVars, restVars>>


\* ==== the registry ContractManager (contracts.py) ======================================
\* ---- strings ---------------------------------------------------------------------------
\* the i-th character of s, as a string
Char(s, i) == SubSeq(s, i, i)

\* s[i:j] of Python for 0 <= i <= j: the characters i+1..j that s has
Slice(s, i, j) == SubSeq(s, i + 1, Min(j, Len(s)))

RECURSIVE IndexIn(_, _, _)
\* the position of character c in s at or after i, 0 when there is none
IndexIn(s, c, i) ==
    IF i > Len(s) THEN 0
    ELSE IF Char(s, i) = c THEN i ELSE IndexIn(s, c, i + 1)

Lower == "abcdefghijklmnopqrstuvwxyz"
Upper == "ABCDEFGHIJKLMNOPQRSTUVWXYZ"
Digits == "0123456789"

\* one character of str.upper() alone
NormalKeepingSpace(c) ==
    IF IndexIn(Lower, c, 1) > 0 THEN Char(Upper, IndexIn(Lower, c, 1)) ELSE c

\* one character of str.replace(" ", "_").upper()
Normal(c) ==
    IF c = " " THEN "_"
    ELSE IF IndexIn(Lower, c, 1) > 0
         THEN Char(Upper, IndexIn(Lower, c, 1))
         ELSE c

RECURSIVE Normalised(_)
Normalised(s) == IF s = "" THEN "" ELSE Normal(Head(s)) \o Normalised(Tail(s))

RECURSIVE Without(_, _)
\* str.replace(pat, "")
Without(s, pat) ==
    IF Len(s) < Len(pat) THEN s
    ELSE IF SubSeq(s, 1, Len(pat)) = pat
         THEN Without(SubSeq(s, Len(pat) + 1, Len(s)), pat)
         ELSE Head(s) \o Without(Tail(s), pat)

RECURSIVE IsDigits(_)
IsDigits(s) == s = "" \/ (IndexIn(Digits, Head(s), 1) > 0 /\ IsDigits(Tail(s)))

RECURSIVE IntOf(_)
\* int(s) of a string of digits
IntOf(s) ==
    IF s = "" THEN 0
    ELSE 10 * IntOf(SubSeq(s, 1, Len(s) - 1)) + IndexIn(Digits, Char(s, Len(s)), 1) - 1

RECURSIVE Decimal(_)
\* str(n) of a natural number
Decimal(n) == IF n < 10 THEN Char(Digits, n + 1)
              ELSE Decimal(n \div 10) \o Char(Digits, (n % 10) + 1)

RECURSIVE ZeroPad(_, _)
\* '{:0>w}'.format(s): zeros on the left up to width w, never a cut
ZeroPad(s, w) == IF Len(s) >= w THEN s ELSE ZeroPad("0" \o s, w)

\* ---- contracts -------------------------------------------------------------------------
\* strikes have four decimals
StrikeUnit == 10000

\* format(strike, '.3f') as a number of thousandths: the nearest one, a tie
\* going to the even one
Format3f(strike) ==
    LET q == strike \div 10
        r == strike % 10
    IN IF r > 5 \/ (r = 5 /\ q % 2 = 1) THEN q + 1 ELSE q

\* a contract tuple (symbol, secType, exchange, currency, expiry, strike, right);
\* a strike is held in units of 1/StrikeUnit
Tuple(symbol, secType, exchange, currency, expiry, strike, right) ==
    [symbol |-> symbol, secType |-> secType, exchange |-> exchange,
     currency |-> currency, expiry |-> expiry, strike |-> strike, right |-> right]

\* contract_to_tuple: the tuple of a Contract object
contract_to_tuple(contract) ==
    Tuple(contract.symbol, contract.secType, contract.exchange, contract.currency,
          contract.expiry, contract.strike, contract.right)

\* month letters in the order of the alphabet
month_codes_alphabetic == "ABCDEFGHIJKL"

month_codes == "FGHJKMNQUVXZ"

\* the try block of contract_to_string: the parts to join, or "raise"
KeyParts(t) ==
    IF t.secType \in {"OPT", "FOP"}
    THEN IF t.right = "" THEN "raise"
         ELSE <<t.symbol \o t.expiry \o Head(t.right)
                  \o ZeroPad(Decimal(t.strike \div StrikeUnit), 5)
                  \o ZeroPad(Decimal(Format3f(t.strike) % 1000), 3),
                t.secType>>
    ELSE IF t.secType = "FUT"
    THEN LET exp == Slice(t.expiry, 0, 6)
             mm == Slice(exp, 4, 6)
         IN IF mm = "" \/ ~IsDigits(mm) \/ IntOf(mm) \notin 1..12 THEN "raise"
            ELSE <<t.symbol \o Char(month_codes, IntOf(mm)) \o Slice(exp, 0, 4),
                   t.secType>>
    ELSE IF t.secType = "CASH"
    THEN <<t.symbol \o t.currency, t.secType>>
    ELSE <<t.symbol, t.secType>>

\* contract_to_string of a tuple, with the default separator
contract_to_string(t) ==
    LET parts == KeyParts(t)
        joined == IF parts = "raise" THEN t.symbol
                  ELSE Without(parts[1] \o "_" \o parts[2], "_STK")
    IN Normalised(joined)

\* ---- contract_to_string applied to drawn tuples ----------------------------------------
Symbols == {"ES", "AAPL", "brk b"}

\* expiries of every month in both forms, and none
Expiries ==
    {""} \cup {"2025" \o ZeroPad(Decimal(m), 2) : m \in 1..12}
         \cup {"2026" \o ZeroPad(Decimal(m), 2) \o "20" : m \in 1..12}

\* the strikes 200.0, 1.5 and 1.9996
Strikes == {2000000, 15000, 19996}

\* the tuples the conversions are applied to: instruments without expiry in
\* two exchanges and currencies, futures of every expiry, options and
\* future options of three strikes with and without a right
KeyInputs ==
    {Tuple(s, ty, ex, cu, "", 0, "") :
        s \in Symbols, ty \in {"STK", "CASH", "BAG"},
        ex \in {"SMART", "NYSE"}, cu \in {"USD", "EUR"}}
    \cup {Tuple(s, "FUT", "GLOBEX", "USD", e, 0, "") : s \in {"ES", "brk b"}, e \in Expiries}
    \cup {Tuple(s, ty, "SMART", "USD", e, k, r) :
             s \in {"ES", "AAPL"}, ty \in {"OPT", "FOP"}, e \in {"20251219"},
             k \in Strikes, r \in {"", "C", "PUT"}}

InitKeys == spec_pair = <<>> /\ key_pair = <<>>

\* two tuples are drawn
DrawnKeys == spec_pair \in KeyInputs \X KeyInputs /\ key_pair = <<"", "">>

\* contract_to_string is called on the n-th tuple
ContractToString(n) ==
    /\ spec_pair # <<>>
    /\ key_pair[n] = ""
    /\ key_pair' = [key_pair EXCEPT ![n] = contract_to_string(spec_pair[n])]
    /\ UNCHANGED spec_pair
    /\ UNCHANGED <<connVars, facadeVars, registryVars, queryVars, comboVars, readVars, handlerVars>>

MaxCalls == 2               \* create_contract coroutines in flight together
MaxLookups == 3             \* detail lookups sent in one behaviour
ContFutPolls == 2           \* cache polls of one continuous-future resolution
Today == 20260101           \* datetime.now() as YYYYMMDD

\* slot 0 is the create_contract call of create_continuous_futures_contract
CallSlots == 0..MaxCalls

\* a Contract object: the tuple fields and the contract id
Contract(t, conId) ==
    [symbol |-> t.symbol, secType |-> t.secType, exchange |-> t.exchange,
     currency |-> t.currency, expiry |-> t.expiry, strike |-> t.strike,
     right |-> t.right, conId |-> conId]

\* Contract()
EmptyContract == Contract(Tuple("", "", "", "", "", 0, ""), 0)

\* the Contract object create_contract builds from a tuple
NewContract(t) ==
    Contract(Tuple(t.symbol, t.secType,
                   IF t.exchange = "" THEN "SMART" ELSE t.exchange,
                   IF t.currency = "" THEN "USD" ELSE t.currency,
                   t.expiry, t.strike, t.right), 0)


\* the specs callers resolve
Specs ==
    { Tuple("AAPL", "STK", "SMART", "USD", "", 0, ""),
      Tuple("ES", "FUT", "GLOBEX", "USD", "", 0, ""),
      Tuple("ES", "FUT", "GLOBEX", "USD", "202603", 0, "") }

\* the specs callers ask contract_details() about
Queried == { Tuple("ES", "FUT", "GLOBEX", "USD", "202603", 0, "") }

\* the tuple create_continuous_futures_contract resolves first
ContFutTuple == Tuple("ES", "CONTFUT", "GLOBEX", "", "", 0, "")

\* a ContractDetails object of the gateway
ContractDetails(contract, contractMonth) ==
    [contract |-> contract, contractMonth |-> contractMonth]

\* the instruments the gateway knows
Catalogue ==
    { ContractDetails(Contract(Tuple("AAPL", "STK", "SMART", "USD", "", 0, ""), 11), ""),
      ContractDetails(Contract(Tuple("ES", "FUT", "GLOBEX", "USD", "20251219", 0, ""), 12), "202512"),
      ContractDetails(Contract(Tuple("ES", "FUT", "GLOBEX", "USD", "20260320", 0, ""), 13), "202603"),
      ContractDetails(Contract(Tuple("ES", "CONTFUT", "GLOBEX", "USD", "20260320", 0, ""), 13), "202603") }

\* a stock no caller resolves
Unresolved == Tuple("MSFT", "STK", "SMART", "USD", "", 0, "")

\* the option family callers resolve
OptTuple == Tuple("AAPL", "OPT", "SMART", "USD", "20260320", 0, "")

\* the options of that family the gateway knows: a call and a put at 200.0
\* and a call at 210.0
Chain ==
    { ContractDetails(Contract(Tuple("AAPL", "OPT", "SMART", "USD", "20260320",
                                     200 * StrikeUnit, "C"), 21), "202603"),
      ContractDetails(Contract(Tuple("AAPL", "OPT", "SMART", "USD", "20260320",
                                     200 * StrikeUnit, "P"), 22), "202603"),
      ContractDetails(Contract(Tuple("AAPL", "OPT", "SMART", "USD", "20260320",
                                     210 * StrikeUnit, "C"), 23), "202603") }

\* the gateway's entry d answers a lookup of contract c
Matches(c, d) ==
    /\ d.contract.symbol = c.symbol
    /\ d.contract.secType = c.secType
    /\ Len(c.expiry) <= Len(d.contract.expiry)
    /\ SubSeq(d.contract.expiry, 1, Len(c.expiry)) = c.expiry

\* what reqContractDetailsAsync may return for contract c: no entry, or
\* matching entries in any order
Responses(c) ==
    LET M == {d \in Catalogue \cup Chain : Matches(c, d)}
    IN {<<>>} \cup {<<d>> : d \in M}
              \cup {p \in M \X M : p[1] # p[2]}

\* the answers to the lookups of the contracts at hand, computed once
ResponseTable ==
    [c \in {NewContract(u) : u \in Specs \cup {ContFutTuple}} |-> Responses(c)]

\* what the lookup of contract c may be answered with
Answers(c) == IF c \in DOMAIN ResponseTable THEN ResponseTable[c] ELSE Responses(c)

\* every answer of the gateway
AllAnswers == {<<>>} \cup {<<d>> : d \in Catalogue} \cup (Catalogue \X Catalogue)

\* the answers with options
ChainAnswers == {<<d>> : d \in Chain} \cup {p \in Chain \X Chain : p[1] # p[2]}

\* the keys of the tuples at hand, computed once
KeyTable ==
    [t \in Specs \cup {contract_to_tuple(NewContract(u)) : u \in Specs \cup {ContFutTuple}}
            \cup {ContFutTuple, OptTuple, Unresolved}
            \cup {contract_to_tuple(d.contract) : d \in Catalogue \cup Chain}
        |-> contract_to_string(t)]

\* contract_to_string of a tuple
KeyOfTuple(t) == IF t \in DOMAIN KeyTable THEN KeyTable[t] ELSE contract_to_string(t)

\* contract_to_string of a Contract object
KeyOf(contract) == KeyOfTuple(contract_to_tuple(contract))

\* ---- the maps ----------------------------------------------------------------------------
\* dict[k] = v
Put(f, k, v) == [x \in (DOMAIN f) \cup {k} |-> IF x = k THEN v ELSE f[x]]

\* del dict[k], when k is in dict
Del(f, k) == [x \in (DOMAIN f) \ {k} |-> f[x]]

\* dict.get(k, default)
Get(f, k, default) == IF k \in DOMAIN f THEN f[k] ELSE default

Least(S) == CHOOSE i \in S : \A j \in S : i <= j

\* ticker_id with no search for the symbol: every call assigns an id
ticker_id_unsearched(ids, symbol) ==
    LET n == Cardinality(DOMAIN ids)
    IN [id |-> n, ids |-> Put(ids, n, symbol)]

\* ticker_id on a key: the id, and the map it leaves behind
ticker_id(ids, symbol) ==
    LET found == {i \in DOMAIN ids : ids[i] = symbol}
        n == Cardinality(DOMAIN ids)
    IN IF found # {} THEN [id |-> Least(found), ids |-> ids]
       ELSE [id |-> n, ids |-> Put(ids, n, symbol)]

\* the record contract_details returns when it has none
DefaultDetails ==
    [tickerId |-> 0, downloaded |-> FALSE, conId |-> 0, contractMonth |-> "",
     contracts |-> <<EmptyContract>>, summary |-> EmptyContract]

\* contract_details on a ticker id
contract_details_of(details, tid) == Get(details, tid, DefaultDetails)

\* an argument of contract_details(): a Contract object, a string or an int
Arg(kind, val) == [kind |-> kind, val |-> val]

\* the arguments callers pass: an id that may have an entry and one that
\* never has, a string of digits, a key, and the contracts of the specs
\* callers ask about
QueryArgs ==
    {Arg("int", i) : i \in {1, 9}} \cup {Arg("str", k) : k \in {"1", "AAPL"}}
        \cup {Arg("contract", NewContract(t)) : t \in Queried}

\* contract_details() that reads the map without a default
contract_details_strict(ids, details, x) ==
    LET r == IF x.kind = "contract" THEN ticker_id(ids, KeyOf(x.val))
             ELSE IF x.kind = "int" THEN [id |-> x.val, ids |-> ids]
             ELSE IF IsDigits(x.val) THEN [id |-> IntOf(x.val), ids |-> ids]
             ELSE ticker_id(ids, x.val)
    IN [ids |-> r.ids, tid |-> r.id, raised |-> r.id \notin DOMAIN details,
        details |-> contract_details_of(details, r.id)]

\* contract_details() on argument x: the id map it leaves, the id it settled
\* on and the record it returns
contract_details_call(ids, details, x) ==
    LET r == IF x.kind = "contract" THEN ticker_id(ids, KeyOf(x.val))
             ELSE IF x.kind = "int" THEN [id |-> x.val, ids |-> ids]
             ELSE IF IsDigits(x.val) THEN [id |-> IntOf(x.val), ids |-> ids]
             ELSE ticker_id(ids, x.val)
    IN [ids |-> r.ids, tid |-> r.id, raised |-> FALSE,
        details |-> contract_details_of(details, r.id)]

\* ---- get_expirations ------------------------------------------------------------------------
Abs(x) == IF x < 0 THEN 0 - x ELSE x

RECURSIVE ExpiriesOf(_)
\* the expiries of the contracts that have one, in the order of the list
ExpiriesOf(cs) ==
    IF cs = <<>> THEN <<>>
    ELSE IF Head(cs).expiry = "" THEN ExpiriesOf(Tail(cs))
         ELSE <<IntOf(Head(cs).expiry)>> \o ExpiriesOf(Tail(cs))

\* list.index(min(list, key=distance to today))
Closest(exps) ==
    Least({i \in 1..Len(exps) :
              \A j \in 1..Len(exps) : Abs(exps[i] - Today) <= Abs(exps[j] - Today)})

RECURSIVE Insert(_, _)
Insert(x, sorted) ==
    IF sorted = <<>> THEN <<x>>
    ELSE IF x <= Head(sorted) THEN <<x>> \o sorted
         ELSE <<Head(sorted)>> \o Insert(x, Tail(sorted))

RECURSIVE Sorted(_)
\* sorted(list)
Sorted(xs) == IF xs = <<>> THEN <<>> ELSE Insert(Head(xs), Sorted(Tail(xs)))

\* get_expirations on a detail record
get_expirations(d, expired) ==
    IF d.contracts = <<>> \/ d.contracts[1].secType \notin {"FUT", "FOP", "OPT"}
    THEN <<>>
    ELSE LET exps == ExpiriesOf(d.contracts)
             idx == IF exps = <<>> THEN 0 ELSE Closest(exps) - expired
         IN Sorted(IF idx >= 1 THEN SubSeq(exps, idx, Len(exps)) ELSE exps)

\* ---- _process_contract_details ----------------------------------------------------------------
\* the registry's maps
Maps(ids, cs, ds) == [ids |-> ids, contracts |-> cs, details |-> ds]

RECURSIVE AddContracts(_, _, _, _)
\* the loop over the contracts of a response: each is registered under its
\* own key, a leaf under another id gets a record of its own
AddContracts(m, tid, dict, cs) ==
    IF cs = <<>> THEN m
    ELSE LET contract == Head(cs)
             r == ticker_id(m.ids, KeyOf(contract))
             leaf == [dict EXCEPT !.summary = contract, !.contracts = <<contract>>]
         IN AddContracts(
                Maps(r.ids,
                     Put(m.contracts, r.id, contract),
                     IF r.id # tid THEN Put(m.details, r.id, leaf) ELSE m.details),
                tid, dict, Tail(cs))

\* _process_contract_details on a non-empty response; an exception inside
\* (KeyError, IndexError) leaves it at that point
process_contract_details(m, tid, details_list) ==
    LET cs == [i \in 1..Len(details_list) |-> details_list[i].contract]
        dict == [tickerId |-> tid, downloaded |-> TRUE, conId |-> cs[1].conId,
                 contractMonth |-> IF Len(cs) > 1 THEN "" ELSE details_list[1].contractMonth,
                 contracts |-> cs, summary |-> cs[1]]
    IN IF Len(cs) > 1
       THEN IF tid \notin DOMAIN m.contracts THEN m
            ELSE LET r == ticker_id(m.ids, KeyOf(m.contracts[tid]))
                     n == Len(get_expirations(contract_details_of(m.details, r.id), 0))
                     m1 == Maps(r.ids, m.contracts, m.details)
                 IN IF n > Len(cs) THEN m1
                    ELSE LET full == [dict EXCEPT !.summary =
                                         IF n > 0 THEN cs[Len(cs) - n + 1] ELSE cs[1]]
                         IN AddContracts(Maps(m1.ids, m1.contracts, Put(m1.details, tid, full)),
                                         tid, full, cs)
       ELSE AddContracts(Maps(m.ids, m.contracts, Put(m.details, tid, dict)), tid, dict, cs)

\* the registry's maps now
Registry == Maps(ticker_ids, contracts, contract_details)

\* ---- create_contract ----------------------------------------------------------------------------
NoCall == [pc |-> "free", spec |-> Tuple("", "", "", "", "", 0, ""), key |-> "",
           tid |-> 0, rid |-> 0]

NoContFut == [pc |-> "idle", retry |-> FALSE, polls |-> 0, result |-> "none",
              evicted |-> 0, dated |-> 0, sent |-> 0]

InitRegistry ==
    /\ ticker_ids = [i \in {0} |-> "SYMBOL"]
    /\ contracts = <<>>
    /\ contract_details = <<>>
    /\ creates = [i \in CallSlots |-> NoCall]
    /\ contfut = NoContFut
    /\ lookups = 0
    /\ returned = <<>>

\* create_contract on tuple t in slot i, with the maps m at hand, up to
\* `await self.ib.reqContractDetailsAsync(contract)`: tid is the id of line 317,
\* rid the id request_contract_details works with
CreateContract(i, m, t) ==
    LET key == KeyOfTuple(t)
        r1 == ticker_id(m.ids, key)
        r2 == ticker_id(r1.ids, KeyOf(NewContract(t)))
    IN /\ ticker_ids' = r2.ids
       /\ contracts' = Put(m.contracts, r1.id, NewContract(t))
       /\ contract_details' = m.details
       /\ creates' = [creates EXCEPT ![i] = [pc |-> "lookup", spec |-> t, key |-> key,
                                         tid |-> r1.id, rid |-> r2.id]]
       /\ lookups' = lookups + 1

\* a caller resolves spec t
Resolve(t) ==
    /\ lookups < MaxLookups
    /\ \E i \in CallSlots \ {0} :
          /\ creates[i].pc = "free"
          /\ \A j \in CallSlots \ {0} : creates[j].pc = "free" => i <= j
          /\ CreateContract(i, Registry, t)
    /\ UNCHANGED <<contfut, returned>>
    /\ UNCHANGED <<connVars, facadeVars, restVars>>

\* create_contract in slot i returns its contract; the sleep before the return
\* changes nothing and is no step of its own
Returns(i) ==
    /\ creates' = [creates EXCEPT ![i] = NoCall]
    /\ returned' = Put(returned, creates[i].key,
                       Append(Get(returned, creates[i].key, <<>>), creates[i].tid))
    /\ contfut' = IF i # 0 THEN contfut
                  ELSE IF contfut.pc = "create"
                       THEN [contfut EXCEPT !.pc = "poll", !.polls = 0]
                       ELSE [contfut EXCEPT !.pc = "done", !.result = "contract"]

\* the lookup of call i is answered with details_list
LookupReturns(i, details_list) ==
    /\ creates[i].pc = "lookup"
    /\ details_list \in Answers(NewContract(creates[i].spec))
    /\ LET m == IF details_list = <<>> THEN Registry
                ELSE process_contract_details(Registry, creates[i].rid, details_list)
       IN /\ ticker_ids' = m.ids
          /\ contracts' = m.contracts
          /\ contract_details' = m.details
    /\ Returns(i)
    /\ UNCHANGED lookups
    /\ UNCHANGED <<connVars, facadeVars, restVars>>

\* the lookup of call i raises and the exception reaches the caller
LookupRaisesToCaller(i) ==
    /\ creates[i].pc = "lookup"
    /\ i # 0
    /\ creates' = [creates EXCEPT ![i] = NoCall]
    /\ UNCHANGED <<ticker_ids, contracts, contract_details, lookups, returned, contfut>>
    /\ UNCHANGED <<connVars, facadeVars, restVars>>

\* the lookup of call i raises: logged
LookupRaises(i) ==
    /\ creates[i].pc = "lookup"
    /\ Returns(i)
    /\ UNCHANGED <<ticker_ids, contracts, contract_details, lookups>>
    /\ UNCHANGED <<connVars, facadeVars, restVars>>

\* a caller asks contract_details() about the contract of spec t: the id is
\* looked up with ticker_id, which gives the key an id when it has none; the
\* record returned is read only
QueryDetails(t) ==
    /\ ticker_ids' = contract_details_call(ticker_ids, contract_details,
                                           Arg("contract", NewContract(t))).ids
    /\ UNCHANGED <<contracts, contract_details, creates, contfut, lookups, returned>>
    /\ UNCHANGED <<connVars, facadeVars, restVars>>

NoQuery == [arg |-> Arg("none", 0), tid |-> 0, raised |-> FALSE, details |-> DefaultDetails]

InitQuery == query = NoQuery

\* a caller calls contract_details(x) and keeps what it returns
DetailsFor(x) ==
    /\ LET r == contract_details_call(ticker_ids, contract_details, x)
       IN /\ ticker_ids' = r.ids
          /\ query' = [arg |-> x, tid |-> r.tid, raised |-> r.raised, details |-> r.details]
    /\ UNCHANGED <<contracts, contract_details, creates, contfut, lookups, returned>>
    /\ UNCHANGED <<connVars, facadeVars, keyVars, comboVars, readVars, handlerVars>>

\* ---- create_continuous_futures_contract ------------------------------------------------------------
\* the placeholder is resolved first
ContFutCall ==
    /\ contfut.pc = "idle"
    /\ lookups < MaxLookups
    /\ CreateContract(0, Registry, ContFutTuple)
    /\ contfut' = [contfut EXCEPT !.pc = "create", !.sent = 1]
    /\ UNCHANGED returned
    /\ UNCHANGED <<connVars, facadeVars, restVars>>

\* the eviction that forgets the placeholder's key as well
EvictWithKey(m, tid) == Maps(Del(m.ids, tid), Del(m.contracts, tid), Del(m.details, tid))

\* an eviction that deletes nothing
EvictNothing(m, tid) == m

\* the placeholder is deleted from the contract map and the detail map
Evict(m, tid) == Maps(m.ids, Del(m.contracts, tid), Del(m.details, tid))

\* a resolution that never starts over
MayRetryNever(c) == FALSE

\* `if not is_retry`: the resolution may start over when it has not yet
MayRetry(c) == ~c.retry

\* one poll of the cache, and what follows the loop when it was the last
ContFutPoll ==
    /\ contfut.pc = "poll"
    /\ LET r == ticker_id(ticker_ids, KeyOf(NewContract(ContFutTuple)))
           d == contract_details_of(contract_details, r.id)
           m == Maps(r.ids, contracts, contract_details)
       IN IF (d.tickerId = 0 \/ d.conId = 0) /\ contfut.polls + 1 < ContFutPolls
          THEN /\ contfut' = [contfut EXCEPT !.polls = @ + 1]
               /\ ticker_ids' = r.ids
               /\ UNCHANGED <<contracts, contract_details, creates, lookups>>
          ELSE IF d.conId = 0
          THEN IF MayRetry(contfut)
               THEN /\ contfut' = [contfut EXCEPT !.pc = "create", !.retry = TRUE,
                                                  !.polls = 0, !.sent = @ + 1]
                    /\ CreateContract(0, m, ContFutTuple)
               ELSE /\ contfut' = [contfut EXCEPT !.pc = "done", !.result = "ValueError"]
                    /\ ticker_ids' = r.ids
                    /\ UNCHANGED <<contracts, contract_details, creates, lookups>>
          ELSE /\ CreateContract(0, Evict(m, d.tickerId),
                                 Tuple(ContFutTuple.symbol, "FUT", ContFutTuple.exchange,
                                       d.summary.currency, d.contractMonth, 0, ""))
               /\ contfut' = [contfut EXCEPT !.pc = "resolve", !.evicted = d.tickerId,
                                             !.dated = creates'[0].tid, !.sent = @ + 1]
    /\ UNCHANGED returned
    /\ UNCHANGED <<connVars, facadeVars, restVars>>

\* ---- get_con_id, get_expirations, get_strikes, is_multi_contract -------------------------------
\* an optional bound of get_strikes: None, or a strike
Bound(given, val) == [given |-> given, val |-> val]

RECURSIVE StrikesIn(_, _, _)
\* [s for s in strikes if smin <= s <= smax] over the strikes of contracts cs,
\* with 0 and infinity for the bound that is None
StrikesIn(cs, smin, smax) ==
    IF cs = <<>> THEN <<>>
    ELSE LET s == Head(cs).strike
             lo == IF smin.given THEN smin.val ELSE 0
         IN IF lo <= s /\ (smax.given => s <= smax.val)
            THEN <<s>> \o StrikesIn(Tail(cs), smin, smax)
            ELSE StrikesIn(Tail(cs), smin, smax)

\* get_strikes on a detail record
get_strikes(d, smin, smax) ==
    IF d.contracts = <<>> \/ d.contracts[1].secType \notin {"FOP", "OPT"}
    THEN <<>>
    ELSE Sorted(IF smin.given \/ smax.given
                THEN StrikesIn(d.contracts, smin, smax)
                ELSE [i \in 1..Len(d.contracts) |-> d.contracts[i].strike])

\* is_multi_contract: what it returns and the id map it leaves
is_multi_contract(ids, details, contract) ==
    IF contract.secType = "FUT" /\ contract.expiry = ""
    THEN [ids |-> ids, result |-> TRUE]
    ELSE IF /\ contract.secType \in {"OPT", "FOP"}
            /\ (contract.expiry = "" \/ contract.strike = 0 \/ contract.right = "")
    THEN [ids |-> ids, result |-> TRUE]
    ELSE LET r == ticker_id(ids, KeyOf(contract))
         IN [ids |-> r.ids,
             result |-> r.id \in DOMAIN details /\ Len(details[r.id].contracts) > 1]

\* the specs callers resolve before they ask
ReadSpecs == {Tuple("ES", "FUT", "GLOBEX", "USD", "", 0, ""), OptTuple}

\* what callers ask about: the contracts of these specs and a stock never
\* resolved
ReadArgs ==
    {Arg("contract", NewContract(t)) :
        t \in ReadSpecs \cup {Unresolved}}

\* the bounds callers pass: None, or 205.0
StrikeBounds == {Bound(FALSE, 0), Bound(TRUE, 205 * StrikeUnit)}

NoAnswer == [op |-> <<"none">>, arg |-> Arg("none", 0), tid |-> 0, result |-> <<>>]

InitRead == answer = NoAnswer

\* what a caller keeps of a read
Answer(op, x, tid, result) == [op |-> op, arg |-> x, tid |-> tid, result |-> result]

\* get_con_id(x)
GetConId(x) ==
    /\ LET r == contract_details_call(ticker_ids, contract_details, x)
       IN /\ ticker_ids' = r.ids
          /\ answer' = Answer(<<"get_con_id">>, x, r.tid, <<r.details.conId>>)
    /\ UNCHANGED <<contracts, contract_details, creates, contfut, lookups, returned>>
    /\ UNCHANGED <<connVars, facadeVars, keyVars, queryVars, comboVars, handlerVars>>

\* get_expirations(x, expired)
GetExpirations(x, expired) ==
    /\ LET r == contract_details_call(ticker_ids, contract_details, x)
       IN /\ ticker_ids' = r.ids
          /\ answer' = Answer(<<"get_expirations", expired>>, x, r.tid,
                              get_expirations(r.details, expired))
    /\ UNCHANGED <<contracts, contract_details, creates, contfut, lookups, returned>>
    /\ UNCHANGED <<connVars, facadeVars, keyVars, queryVars, comboVars, handlerVars>>

\* get_strikes(x, smin, smax)
GetStrikes(x, smin, smax) ==
    /\ LET r == contract_details_call(ticker_ids, contract_details, x)
       IN /\ ticker_ids' = r.ids
          /\ answer' = Answer(<<"get_strikes", smin, smax>>, x, r.tid,
                              get_strikes(r.details, smin, smax))
    /\ UNCHANGED <<contracts, contract_details, creates, contfut, lookups, returned>>
    /\ UNCHANGED <<connVars, facadeVars, keyVars, queryVars, comboVars, handlerVars>>

\* is_multi_contract(contract)
IsMultiContract(x) ==
    /\ x.kind = "contract"
    /\ LET r == is_multi_contract(ticker_ids, contract_details, x.val)
       IN /\ ticker_ids' = r.ids
          /\ answer' = Answer(<<"is_multi_contract">>, x, 0, <<r.result>>)
    /\ UNCHANGED <<contracts, contract_details, creates, contfut, lookups, returned>>
    /\ UNCHANGED <<connVars, facadeVars, keyVars, queryVars, comboVars, handlerVars>>

\* ---- create_combo_leg, create_combo_contract ----------------------------------------------------
LegPolls == 2               \* cache polls of one create_combo_leg (100 in the code)
MaxLegs == 2                \* legs a caller collects
MaxCombos == 2              \* create_combo_contract calls in one behaviour

\* exchange=None
None == "<None>"

\* the instruments callers build legs of
LegSpecs ==
    { Tuple("AAPL", "STK", "SMART", "USD", "", 0, ""),
      Tuple("ES", "FUT", "GLOBEX", "USD", "202603", 0, "") }

LegActions == {"BUY"}

\* a ComboLeg object
ComboLeg(conId, ratio, action, exchange) ==
    [conId |-> conId, ratio |-> ratio, action |-> action, exchange |-> exchange]

NoLeg == [pc |-> "idle", contract |-> EmptyContract, action |-> "", loops |-> 0]

NoBag == [calls |-> 0, result |-> "none", tid |-> 0, comboLegs |-> <<>>]

InitCombo == leg = NoLeg /\ legs = <<>> /\ bag = NoBag

\* one pass of the loop of create_combo_leg after `loops` passes: get_con_id
\* gives the contract's key an id when it has none and reads the conId of its
\* record; the coroutine sleeps and goes on, or leaves the loop and returns
\* the leg with the conId it has
ComboLegLoop(contract, action, loops) ==
    LET r == ticker_id(ticker_ids, KeyOf(contract))
        con_id == contract_details_of(contract_details, r.id).conId
    IN /\ ticker_ids' = r.ids
       /\ IF con_id = 0 /\ loops + 1 < LegPolls
          THEN /\ leg' = [pc |-> "poll", contract |-> contract, action |-> action,
                          loops |-> loops + 1]
               /\ legs' = legs
          ELSE /\ leg' = NoLeg
               /\ legs' = Append(legs, ComboLeg(con_id, Abs(1), action, contract.exchange))
    /\ UNCHANGED <<contracts, contract_details, creates, contfut, lookups, returned, bag>>
    /\ UNCHANGED <<connVars, facadeVars, keyVars, queryVars, readVars, handlerVars>>

\* a caller calls create_combo_leg(contract, action): the first pass runs at once
ComboLegCall(contract, action) ==
    /\ leg.pc = "idle"
    /\ Len(legs) < MaxLegs
    /\ ComboLegLoop(contract, action, 0)

\* create_combo_leg wakes from its sleep
ComboLegPoll ==
    /\ leg.pc = "poll"
    /\ ComboLegLoop(leg.contract, leg.action, leg.loops)

\* a lookup after every create_contract, combo or not
RequestsDetailsAlways(kwargs) == TRUE

\* `if "combo_legs" not in kwargs` of create_contract
RequestsDetails(kwargs) == "combo_legs" \notin kwargs

\* create_combo_contract(symbol, the_legs, exchange=exchange): legs[0] of an
\* empty list raises IndexError; otherwise create_contract(tuple, combo_legs=legs)
CreateComboContract(symbol, given, exchange) ==
    /\ bag.calls < MaxCombos
    /\ LET the_legs == IF given THEN legs ELSE <<>>
       IN IF exchange = None /\ the_legs = <<>>
          THEN /\ bag' = [calls |-> bag.calls + 1, result |-> "IndexError", tid |-> 0,
                          comboLegs |-> <<>>]
               /\ UNCHANGED <<ticker_ids, contracts, creates, lookups>>
          ELSE LET t == Tuple(symbol, "BAG",
                              IF exchange = None THEN the_legs[1].exchange ELSE exchange,
                              "USD", "", 0, "")
                   r == ticker_id(ticker_ids, KeyOfTuple(t))
               IN /\ bag' = [calls |-> bag.calls + 1, result |-> "contract", tid |-> r.id,
                             comboLegs |-> the_legs]
                  /\ IF RequestsDetails({"combo_legs"})
                     THEN \E i \in CallSlots \ {0} :
                             /\ creates[i].pc = "free"
                             /\ CreateContract(i, Registry, t)
                     ELSE /\ ticker_ids' = r.ids
                          /\ contracts' = Put(contracts, r.id, NewContract(t))
                          /\ UNCHANGED <<creates, lookups>>
    /\ contract_details' = contract_details
    /\ UNCHANGED <<contfut, returned, leg, legs>>
    /\ UNCHANGED <<connVars, facadeVars, keyVars, queryVars, readVars, handlerVars>>

\* ==== register_handler, unregister_handler (connection.py) ==============================
\* the events of the transport, and a name the transport has no event for
MaxHandlers == 2             \* entries of one list of _event_handlers

ClientEvents == {"disconnectedEvent", "errorEvent"}
EventNames == ClientEvents \cup {"noSuchEvent"}

Handlers == {"h1", "h2"}

\* the (event, handler) pairs in _event_handlers
Registered(eh) ==
    {p \in EventNames \X Handlers :
        p[1] \in DOMAIN eh /\ \E n \in DOMAIN eh[p[1]] : eh[p[1]][n] = p[2]}

RECURSIVE Remove(_, _)
\* list.remove(h): the first occurrence goes
Remove(xs, h) ==
    IF xs = <<>> THEN <<>>
    ELSE IF Head(xs) = h THEN Tail(xs) ELSE <<Head(xs)>> \o Remove(Tail(xs), h)

\* a call and the state it found
Call(op, e, h, was, slots) ==
    [op |-> op, event |-> e, handler |-> h, was |-> was, slots |-> slots]

NoHandlerCall == [last |-> Call("none", "", "", {}, <<>>), prev |-> Call("none", "", "", {}, <<>>)]

InitHandlers ==
    /\ event_handlers = <<>>
    /\ client_slots = [e \in ClientEvents |-> [h \in Handlers |-> 0]]
    /\ handler_call = NoHandlerCall

\* what a call leaves in handler_call
HandlerCall(op, e, h) ==
    [last |-> Call(op, e, h, Registered(event_handlers), client_slots),
     prev |-> handler_call.last]

\* `handler not in self._event_handlers[event_name]` dropped
NotYetRegisteredAlways(eh, e, h) == TRUE

\* `if handler not in self._event_handlers[event_name]`, after the list exists
NotYetRegistered(eh, e, h) == \A n \in DOMAIN eh[e] : eh[e][n] # h

\* register_handler(e, h)
RegisterHandler(e, h) ==
    /\ LET eh == IF e \in DOMAIN event_handlers THEN event_handlers
                 ELSE Put(event_handlers, e, <<>>)
       IN IF NotYetRegistered(eh, e, h)
          THEN /\ Len(eh[e]) < MaxHandlers
               /\ event_handlers' = [eh EXCEPT ![e] = Append(@, h)]
               /\ client_slots' = IF e \in ClientEvents
                                  THEN [client_slots EXCEPT ![e][h] = Subscribe(@)]
                                  ELSE client_slots
          ELSE /\ event_handlers' = eh
               /\ client_slots' = client_slots
    /\ handler_call' = HandlerCall("register", e, h)
    /\ UNCHANGED <<connVars, facadeVars, registryVars, keyVars, queryVars, comboVars,
                   readVars>>

\* unregister_handler(e, h)
UnregisterHandler(e, h) ==
    /\ IF /\ e \in DOMAIN event_handlers
          /\ \E n \in DOMAIN event_handlers[e] : event_handlers[e][n] = h
       THEN /\ event_handlers' = [event_handlers EXCEPT ![e] = Remove(@, h)]
            /\ client_slots' = IF e \in ClientEvents
                               THEN [client_slots EXCEPT ![e][h] = Unsubscribe(@)]
                               ELSE client_slots
       ELSE UNCHANGED <<event_handlers, client_slots>>
    /\ handler_call' = HandlerCall("unregister", e, h)
    /\ UNCHANGED <<connVars, facadeVars, registryVars, keyVars, queryVars, comboVars,
                   readVars>>

\* ==== the specifications ==================================================================
Init == InitConnection /\ InitFacade /\ InitRegistry /\ InitKeys /\ InitQuery /\ InitCombo /\ InitRead
        /\ InitHandlers

Next ==
    \/ \E auto \in BOOLEAN : CallConnect(auto)
    \/ ConnectReturns
    \/ ConnectRaises
    \/ \E n \in 0..MaxNotify : Drop(n)
    \/ \E i \in Slots : TaskStart(i)
    \/ \E i \in Slots : TaskWake(i)
    \/ \E i \in Slots : TaskConnectOk(i)
    \/ \E i \in Slots : TaskConnectFail(i)
    \/ \E i \in Slots : TaskCancelled(i)
    \/ MonitorWake
    \/ MonitorCancelled
    \/ CallDisconnect
    \/ AwaitReconnectReturns
    \/ AwaitMonitorReturns
    \/ Tick

Spec == Init /\ [][Next]_vars

\* The same program in its plain use: the caller creates connect() in the
\* Disconnected state only, as __aenter__ does, and the transport does not
\* drop the session while the caller is inside connect() or disconnect().
SerialConnect(auto) == Status = "Disconnected" /\ CallConnect(auto)

SerialDrop(n) == caller.pc = "idle" /\ Drop(n)

SerialNext ==
    \/ \E auto \in BOOLEAN : SerialConnect(auto)
    \/ ConnectReturns
    \/ ConnectRaises
    \/ \E n \in 0..MaxNotify : SerialDrop(n)
    \/ \E i \in Slots : TaskStart(i)
    \/ \E i \in Slots : TaskWake(i)
    \/ \E i \in Slots : TaskConnectOk(i)
    \/ \E i \in Slots : TaskConnectFail(i)
    \/ \E i \in Slots : TaskCancelled(i)
    \/ MonitorWake
    \/ MonitorCancelled
    \/ CallDisconnect
    \/ AwaitReconnectReturns
    \/ AwaitMonitorReturns
    \/ Tick

SerialSpec == Init /\ [][SerialNext]_vars

\* The event loop runs every callback that is ready, time advances, and every
\* transport round trip completes (connectAsync has a timeout); a round trip
\* completes when no callback is ready, whence its strong fairness.
Fairness ==
    /\ \A i \in Slots : /\ WF_vars(TaskStart(i))
                         /\ WF_vars(TaskWake(i))
                         /\ WF_vars(TaskCancelled(i))
                         /\ SF_vars(TaskConnectOk(i) \/ TaskConnectFail(i))
    /\ WF_vars(MonitorWake)
    /\ WF_vars(MonitorCancelled)
    /\ WF_vars(AwaitReconnectReturns)
    /\ WF_vars(AwaitMonitorReturns)
    /\ SF_vars(ConnectReturns \/ ConnectRaises)
    /\ WF_vars(Tick)

FairSpec == Init /\ [][SerialNext]_vars /\ Fairness

\* the facade and its gateway
FacadeNext ==
    \/ FacadeCallConnect
    \/ FacadeConnectOk
    \/ FacadeConnectFail
    \/ FacadeDisconnect
    \/ \E notified \in BOOLEAN : FacadeDrop(notified)
    \/ \E i \in FacadeSlots : FacadeTaskStart(i)
    \/ \E i \in FacadeSlots : FacadeTaskWake(i)
    \/ \E i \in FacadeSlots : FacadeTaskConnectOk(i)
    \/ \E i \in FacadeSlots : FacadeTaskConnectFail(i)
    \/ FacadeTick

FacadeSpec == Init /\ [][FacadeNext]_vars

FacadeFairness ==
    /\ \A i \in FacadeSlots : /\ WF_vars(FacadeTaskStart(i))
                               /\ WF_vars(FacadeTaskWake(i))
                               /\ SF_vars(FacadeTaskConnectOk(i) \/ FacadeTaskConnectFail(i))
    /\ SF_vars(FacadeConnectOk \/ FacadeConnectFail)
    /\ WF_vars(FacadeTick)

FacadeFairSpec == Init /\ [][FacadeNext]_vars /\ FacadeFairness

\* the registry, its callers and the gateway's answers
RegistryNext ==
    \/ \E t \in Specs : Resolve(t)
    \/ \E i \in CallSlots : LookupRaises(i)
    \/ \E i \in CallSlots, details_list \in AllAnswers : LookupReturns(i, details_list)
    \/ ContFutCall
    \/ ContFutPoll
    \/ \E t \in Queried : QueryDetails(t)

RegistrySpec == Init /\ [][RegistryNext]_vars

\* the records of the continuous-future coroutine
ContFutRecords ==
    [pc : {"idle", "create", "poll", "resolve", "done"}, retry : BOOLEAN,
     polls : 0..ContFutPolls, result : {"none", "contract", "ValueError"},
     evicted : 0..2 * MaxLookups, dated : 0..2 * MaxLookups, sent : 0..3]

\* the continuous-future coroutine moves on from the sleep of its poll, which
\* only ContFutPoll does
ContFutResumes == contfut.pc = "poll" /\ contfut' \in ContFutRecords /\ contfut' # contfut

\* the lookup of call i comes back, which only LookupReturns and LookupRaises do
LookupDone(i) == creates[i].pc = "lookup" /\ creates' = [creates EXCEPT ![i] = NoCall]

\* The event loop resumes the continuous-future coroutine when its short
\* sleep is over, and the gateway answers its lookups, with entries, with
\* none or with an error.
RegistryFairness ==
    /\ WF_contfut(ContFutResumes)
    /\ WF_creates(LookupDone(0))

RegistryFairSpec == Init /\ [][RegistryNext]_vars /\ RegistryFairness

\* a caller resolves spec t when no other resolution is under way
SerialResolve(t) == (\A i \in CallSlots : creates[i].pc = "free") /\ Resolve(t)

\* the registry with one resolution at a time, and the callers of its queries
QueryNext ==
    \/ \E t \in Specs : SerialResolve(t)
    \/ \E i \in CallSlots : LookupRaises(i)
    \/ \E i \in CallSlots, details_list \in AllAnswers : LookupReturns(i, details_list)
    \/ \E x \in QueryArgs : DetailsFor(x)

QuerySpec == Init /\ [][QueryNext]_vars

\* the registry with the callers that build combos
ComboNext ==
    \/ \E t \in LegSpecs : SerialResolve(t)
    \/ \E i \in CallSlots : LookupRaises(i)
    \/ \E i \in CallSlots, details_list \in AllAnswers : LookupReturns(i, details_list)
    \/ \E contract \in {NewContract(t) : t \in LegSpecs}, action \in LegActions :
          ComboLegCall(contract, action)
    \/ ComboLegPoll
    \/ \E given \in BOOLEAN, exchange \in {None, "SMART"} :
          CreateComboContract("SPREAD", given, exchange)

ComboSpec == Init /\ [][ComboNext]_vars

\* a caller resolves spec t, once
ResolveOnce(t) == KeyOfTuple(t) \notin DOMAIN returned /\ SerialResolve(t)

\* the registry with one resolution at a time, and the callers of the reads
ReadNext ==
    \/ \E t \in ReadSpecs : ResolveOnce(t)
    \/ \E i \in CallSlots : LookupRaises(i)
    \/ \E i \in CallSlots, details_list \in AllAnswers \cup ChainAnswers :
          LookupReturns(i, details_list)
    \/ \E x \in ReadArgs : GetConId(x)
    \/ \E x \in ReadArgs, expired \in 0..1 : GetExpirations(x, expired)
    \/ \E x \in ReadArgs, smin \in StrikeBounds, smax \in StrikeBounds : GetStrikes(x, smin, smax)
    \/ \E x \in ReadArgs : IsMultiContract(x)

ReadSpec == Init /\ [][ReadNext]_vars

\* the callers of register_handler and unregister_handler
HandlerNext ==
    \/ \E e \in EventNames, h \in Handlers : RegisterHandler(e, h)
    \/ \E e \in EventNames, h \in Handlers : UnregisterHandler(e, h)

HandlerSpec == Init /\ [][HandlerNext]_vars

\* contract_to_string on every pair of tuples
KeyInit == InitConnection /\ InitFacade /\ InitRegistry /\ DrawnKeys /\ InitQuery /\ InitCombo /\ InitRead
        /\ InitHandlers

KeyNext == \E n \in 1..2 : ContractToString(n)

KeySpec == KeyInit /\ [][KeyNext]_vars

\* ---- properties ----------------------------------------------------------------------
\* the caller's last operation has returned and it was op
Returned(op) == caller.pc = "idle" /\ caller.op = op

\* a reconnect task is created in this step
Spawns == \E i \in Slots : ~Active(tasks[i]) /\ Active(tasks'[i])

\* C1: at every moment at most one reconnect task is active, whatever the
\* interleaving of notifications, polls, connect() and disconnect().
C1_SingleReconnectTask == Cardinality(ActiveTasks) <= 1

\* C2: once disconnect() has returned and until connect() is called again, no
\* reconnect task and no poll task is active (so nothing attempts a connect).
C2_DisconnectSuppresses ==
    (Returned("disconnect") /\ caller.result = "disconnected")
        => /\ ActiveTasks = {}
           /\ connection_check_task.pc # "sleep"

\* C3: after the reconnect loop gave up, no reconnect task is started by the
\* notification handler or the poll until the caller calls connect() again.
C3_NoRestartAfterGiveUp ==
    [][last_exit = "exhausted" => ~Spawns]_vars

\* C4: in a run of the reconnect loop without caller intervention the i-th
\* transport connect is made with the attempt counter at i, and a run that
\* ends because every attempt failed has made exactly MaxReconnectAttempts
\* of them and leaves the counter at 0.
C4_ReconnectBound ==
    run_clean =>
        /\ \A i \in Slots :
              /\ tasks[i].pc = "sleep" => reconnect_attempts = run_calls + 1
              /\ tasks[i].pc = "connecting" => reconnect_attempts = run_calls
        /\ last_exit = "exhausted" =>
              run_calls = MaxReconnectAttempts /\ reconnect_attempts = 0

\* C5: after every connect(auto_reconnect=True) that returned successfully the
\* handler is subscribed and the poll task is running.
C5_ArmedAfterConnect ==
    (Returned("connect") /\ caller.result = "connected" /\ caller.auto)
        => /\ disconnectedEvent >= 1
           /\ connection_check_task.pc = "sleep"

\* C6: when disconnect() was called in the Connected or the Reconnecting state
\* then on return the reconnect task and the poll task have terminated, the
\* handler is unsubscribed and the session is closed.
C6_DisconnectCleansUp ==
    (Returned("disconnect") /\ caller.from \in {"Connected", "Reconnecting"})
        => /\ ActiveTasks = {}
           /\ connection_check_task.pc = "none"
           /\ disconnectedEvent = 0
           /\ ~is_connected

\* C7: a reconnect task cancelled by disconnect() in its sleep or inside a
\* connect attempt stops at that suspension point: it makes no further step
\* but its termination, no transport connect is issued in that step, and the
\* caller's await does not return before the task has terminated.
C7_CancelStopsReconnect ==
    [][/\ \A i \in Slots :
            Cancelled(i) => /\ Active(tasks'[i]) => tasks'[i] = tasks[i]
                            /\ ~Active(tasks'[i]) => run_calls' = run_calls
       /\ (caller.pc = "await_reconnect" /\ caller'.pc # "await_reconnect")
            => ~Active(tasks[caller.wait])]_vars

\* C8: when the transport connect inside connect() fails, connect() raises
\* ConnectionError, and on a controller without armed monitoring the failing
\* step starts neither a reconnect task nor a poll task.
C8_ConnectFailureRaises ==
    [][(caller.pc = "connecting" /\ caller'.transport = "failed")
        => /\ caller'.pc = "idle"
           /\ caller'.result = "ConnectionError"
           /\ (disconnectedEvent = 0 /\ connection_check_task.pc = "none")
                => /\ ~Spawns
                   /\ connection_check_task' = connection_check_task]_vars

\* C9: with the poll armed, a dead transport is never left without a reconnect
\* task for more than one polling interval, also when the disconnect
\* notification was missed.
C9_PollCatchesMissedNotification == stale <= PollInterval

\* the connection was lost after a successful connect(auto_reconnect=True) and
\* the caller has not called anything since
LostAfterConnect ==
    /\ Returned("connect")
    /\ caller.result = "connected"
    /\ caller.auto
    /\ ~is_connected

\* C10: when the connection is lost after a successful
\* connect(auto_reconnect=True), the controller eventually is connected again
\* with the attempt counter at 0, unless the caller intervenes or the transport
\* refuses every attempt of a run.
C10_ReconnectsEventually ==
    LostAfterConnect ~> \/ is_connected /\ reconnect_attempts = 0
                        \/ ~Returned("connect")
                        \/ last_exit = "exhausted"

\* the facade's session was lost after the user's connectAsync() returned True
\* and the user has not called anything since
FacadeLost ==
    /\ user.pc = "idle"
    /\ user.op = "connectAsync"
    /\ user.result = "True"
    /\ ~ib_connected

\* C11: when the gateway drops the facade's session, not at the user's request,
\* the facade eventually is connected again without a call of the user, unless
\* the user intervenes or the gateway refuses every attempt of the loop.
C11_FacadeReconnects ==
    FacadeLost ~> \/ isConnected /\ ib_connected
                  \/ ~(user.pc = "idle" /\ user.op = "connectAsync")
                  \/ facade_exit = "exhausted"

\* C12: the facade's flag isConnected never claims a session the transport
\* has lost for longer than one liveness-poll interval, also when the
\* disconnect notification is missed.
C12_StatusFollowsTransport == facade_stale <= PollInterval

\* a reconnect task issues a transport connect in this step
Attempts == \E i \in Slots : tasks[i].pc # "connecting" /\ tasks'[i].pc = "connecting"

\* C13: while the session in use is one that connect(auto_reconnect=False)
\* established, no reconnect task is started and no reconnect task issues a
\* transport connect, whatever preceded that connect().
C13_NoReconnectWithoutAuto ==
    [][(Returned("connect") /\ caller.result = "connected" /\ ~caller.auto)
        => ~Spawns /\ ~Attempts]_vars

\* C14: _handle_disconnection is subscribed at most once, and there is at most
\* one poll task: connect() leaves a living poll task in place and
\* disconnect() gives up its handle only when the task has terminated.
C14_MonitoringArmedOnce ==
    /\ [](disconnectedEvent <= 1)
    /\ [][/\ (caller.pc = "connecting" /\ caller'.pc = "idle"
                                           /\ connection_check_task.pc = "sleep")
                => connection_check_task' = connection_check_task
          /\ (caller.pc = "await_monitor" /\ caller'.pc # "await_monitor")
                => connection_check_task.pc = "done"]_vars

\* C15: a reconnect task that wakes from its sleep with the transport already
\* connected leaves the loop in that step without a transport connect, and
\* whenever a task leaves the loop on success, by its own attempt or because
\* the connection was already restored, the attempt counter is 0.
C15_RestoredEndsLoop ==
    [][\A i \in Slots :
          /\ (/\ tasks[i].pc = "sleep" /\ tasks[i].timer = 0 /\ ~tasks[i].cancel
              /\ is_connected
              /\ tasks'[i] # tasks[i] /\ ~tasks'[i].cancel)
                => ~Active(tasks'[i]) /\ last_exit' = "already"
          /\ (Active(tasks[i]) /\ ~Active(tasks'[i])
                               /\ last_exit' \in {"already", "restored"})
                => reconnect_attempts' = 0]_vars

\* the ids returned for key k
ReturnedIds(k) == {returned[k][n] : n \in 1..Len(returned[k])}

\* C16: however often and in whatever order a spec is resolved, with other
\* resolutions and detail responses in between, create_contract gives its key
\* the same ticker id every time.
C16_SameKeySameId == \A k \in DOMAIN returned : Cardinality(ReturnedIds(k)) <= 1

\* a create_contract call starts in slot i in this step
Starts(i) == creates[i].pc = "free" /\ creates'[i].pc = "lookup"

\* C17: a resolve of a key whose earlier resolution has completed sends no
\* detail lookup to the transport.
C17_NoLookupWhenResolved ==
    [][\A i \in CallSlots :
          (Starts(i) /\ creates'[i].key \in DOMAIN returned) => lookups' = lookups]_vars

\* C18: a resolve of a key whose resolution is still in flight gets the id of
\* that resolution and sends no second detail lookup.
C18_PendingDeduplicated ==
    [][\A i, j \in CallSlots :
          (Starts(i) /\ creates[j].pc = "lookup" /\ creates'[i].key = creates[j].key)
              => creates'[i].tid = creates[j].tid /\ lookups' = lookups]_vars

\* no create_contract call is under way and no continuous future was asked for
Quiescent == contfut.pc = "idle" /\ \A i \in CallSlots : creates[i].pc = "free"

\* C19: once N distinct keys have been resolved, and nothing is under way,
\* the ticker ids returned for them are exactly 1..N.
C19_DenseIds ==
    Quiescent =>
        UNION {ReturnedIds(k) : k \in DOMAIN returned} = 1..Cardinality(DOMAIN returned)

\* C20: no key has two ticker ids, and an id once given to a key stays with
\* that key for good, across detail updates and the eviction of a
\* continuous-future placeholder.
C20_IdsInjectivePermanent ==
    /\ [](\A i, j \in DOMAIN ticker_ids : ticker_ids[i] = ticker_ids[j] => i = j)
    /\ [][\A i \in DOMAIN ticker_ids :
              i \in DOMAIN ticker_ids' /\ ticker_ids'[i] = ticker_ids[i]]_vars

\* ---- properties of contract_to_string --------------------------------------------------
\* both keys of the pair are computed
BothKeys == spec_pair # <<>> /\ key_pair[1] # "" /\ key_pair[2] # ""

\* the fields of tuple t that the construction rule of its type reads
UsedFields(t) ==
    IF t.secType \in {"OPT", "FOP"}
    THEN <<t.symbol, t.expiry, Slice(t.right, 0, 1), t.strike>>
    ELSE IF t.secType = "FUT" THEN <<t.symbol, Slice(t.expiry, 0, 6)>>
    ELSE IF t.secType = "CASH" THEN <<t.symbol, t.currency>>
    ELSE <<t.symbol>>

\* C21: two tuples of different security types, or of one type and differing
\* in a field its rule reads, never get the same key, under-specified tuples
\* included.
C21_KeysCollisionFree ==
    (BothKeys /\ (\/ spec_pair[1].secType # spec_pair[2].secType
                  \/ UsedFields(spec_pair[1]) # UsedFields(spec_pair[2])))
        => key_pair[1] # key_pair[2]

\* the characters of a key: no lower-case letter and no space
KeyChars(k) == \A i \in 1..Len(k) : Char(k, i) # " " /\ IndexIn(Lower, Char(k, i), 1) = 0

\* C29: equal tuples get equal keys, two equity tuples that differ in
\* exchange and currency only get equal keys, and every key is upper-case
\* and has no space.
C29_KeyDeterministic ==
    BothKeys =>
        /\ spec_pair[1] = spec_pair[2] => key_pair[1] = key_pair[2]
        /\ (/\ spec_pair[1].secType = "STK"
            /\ [spec_pair[1] EXCEPT !.exchange = "", !.currency = ""]
                 = [spec_pair[2] EXCEPT !.exchange = "", !.currency = ""])
              => key_pair[1] = key_pair[2]
        /\ KeyChars(key_pair[1]) /\ KeyChars(key_pair[2])

\* the month letters of the future key, January to December
MonthLetters == <<"F", "G", "H", "J", "K", "M", "N", "Q", "U", "V", "X", "Z">>

\* C30: the key of a future with expiry YYYYMM or YYYYMMDD is the symbol, the
\* letter of the month, the year and _FUT.
C30_FutureKey ==
    \A n \in 1..2 :
        (/\ spec_pair # <<>> /\ key_pair[n] # ""
         /\ spec_pair[n].secType = "FUT" /\ Len(spec_pair[n].expiry) \in {6, 8})
            => key_pair[n] = Normalised(spec_pair[n].symbol)
                                \o MonthLetters[IntOf(Slice(spec_pair[n].expiry, 4, 6))]
                                \o Slice(spec_pair[n].expiry, 0, 4) \o "_FUT"

\* the eight strike digits of a key for a strike of th thousandths
StrikeDigits(th) == ZeroPad(Decimal(th \div 1000), 5) \o ZeroPad(Decimal(th % 1000), 3)

\* C31: the key of an option or future option with expiry, right and a strike
\* from 0 to below 100000 is the symbol, the expiry, the first letter of the
\* right, the integer part of the strike on five digits and its fraction on
\* three (the strike cut or rounded to thousandths), and _OPT or _FOP.
C31_OptionKey ==
    \A n \in 1..2 :
        (/\ spec_pair # <<>> /\ key_pair[n] # ""
         /\ spec_pair[n].secType \in {"OPT", "FOP"}
         /\ spec_pair[n].expiry # "" /\ spec_pair[n].right # ""
         /\ spec_pair[n].strike \in 0..(100000 * StrikeUnit - 1))
            => \E th \in {spec_pair[n].strike \div 10, (spec_pair[n].strike + 5) \div 10} :
                  key_pair[n] = Normalised(spec_pair[n].symbol \o spec_pair[n].expiry
                                              \o Slice(spec_pair[n].right, 0, 1))
                                   \o StrikeDigits(th) \o "_" \o spec_pair[n].secType

\* C22: contract_details() raises for no argument, and for an id without a
\* detail record (allocated and not yet answered, or never allocated) it
\* returns the placeholder record with conId 0 and downloaded false.
C22_DetailsNeverRaise ==
    /\ [](~query.raised)
    /\ [][query' # query =>
            (query'.tid \notin DOMAIN contract_details
                => /\ query'.details.conId = 0
                   /\ query'.details.downloaded = FALSE)]_vars

\* C23: when the lookup of a resolve raises or is answered with no entry, the
\* resolve returns to its caller as usual, the id stays allocated, and no
\* detail record changes: the one of the id is what it was, the placeholder
\* when there was none.
C23_LookupFailureKept ==
    [][\A i \in CallSlots :
          (LookupRaises(i) \/ LookupReturns(i, <<>>))
              => /\ returned' = Put(returned, creates[i].key,
                                    Append(Get(returned, creates[i].key, <<>>), creates[i].tid))
                 /\ ticker_ids' = ticker_ids
                 /\ creates[i].tid \in DOMAIN ticker_ids'
                 /\ contract_details' = contract_details
                 /\ contracts' = contracts]_vars

\* C25: a continuous-future resolution always comes to an end; as long as
\* the cache has shown no concrete contract it has polled fewer than
\* ContFutPolls times in a row and sent at most two lookups, and when it ends
\* without one it has retried once, sent exactly two lookups and raised
\* ValueError.
C25_ContFutTerminates ==
    /\ [](contfut.evicted = 0 => contfut.sent <= 2 /\ contfut.polls < ContFutPolls)
    /\ []((contfut.pc = "done" /\ contfut.evicted = 0)
            => contfut.result = "ValueError" /\ contfut.retry /\ contfut.sent = 2)
    /\ (contfut.pc # "idle" ~> contfut.pc = "done")

\* the continuous-future resolution has ended with the dated contract
ContFutResolved == contfut.pc = "done" /\ contfut.result = "contract"

\* the placeholder is gone from the contract map and the detail map, and its
\* id is still its key's
PlaceholderEvicted ==
    /\ contfut.evicted \notin DOMAIN contracts
    /\ contfut.evicted \notin DOMAIN contract_details
    /\ contract_details_of(contract_details, contfut.evicted) = DefaultDetails
    /\ contfut.evicted \in DOMAIN ticker_ids
    /\ ticker_ids[contfut.evicted] = KeyOfTuple(ContFutTuple)

\* the re-resolution as a dated future starts in this step
ReResolves == contfut.pc = "poll" /\ contfut'.pc = "resolve"

\* the dated future is registered under an id of its own
DatedRegistered ==
    /\ contfut.dated # contfut.evicted
    /\ contfut.dated \in DOMAIN contracts
    /\ contracts[contfut.dated].secType = "FUT"
    /\ ticker_ids[contfut.dated] = KeyOf(contracts[contfut.dated])

ComboCalled == bag'.calls = bag.calls + 1

\* C24: create_combo_leg returns no leg whose instrument still has no contract
\* id after the polls: every leg a caller holds has a contract id.
C24_LegErrorOnFailure == \A n \in DOMAIN legs : legs[n].conId # 0

\* C27: create_combo_contract with an empty leg list ends in an error, with
\* the exchange given or not, and leaves the id map and the contract map as
\* they were.
C27_EmptyLegsFail ==
    [][ComboCalled /\ bag'.comboLegs = <<>> =>
          /\ bag'.result = "IndexError"
          /\ UNCHANGED <<ticker_ids, contracts>>]_vars

\* C28: a combo that is resolved has an id, its BAG contract with the legs is
\* in the contract map, and no lookup is sent and none is in flight for it;
\* a resolve of a spec that is no combo and whose key has no id sends one.
C28_ComboNoLookup ==
    /\ [][ComboCalled /\ bag'.result = "contract" =>
            /\ bag'.tid \in DOMAIN ticker_ids'
            /\ ticker_ids'[bag'.tid] = "SPREAD_BAG"
            /\ bag'.tid \in DOMAIN contracts'
            /\ contracts'[bag'.tid].secType = "BAG"
            /\ bag'.comboLegs \in {<<>>, legs}
            /\ UNCHANGED <<lookups, creates, contract_details>>]_vars
    /\ [][\A i \in CallSlots :
            /\ creates[i].pc = "free"
            /\ creates'[i].pc = "lookup"
            /\ creates'[i].spec.secType # "BAG"
            /\ \A j \in DOMAIN ticker_ids : ticker_ids[j] # creates'[i].key
            => lookups' = lookups + 1]_vars

\* ---- properties of the facade's reconnect tasks -------------------------------------------
\* C34: after the user's disconnect() and until the user's next call, a
\* reconnect task that sleeps between attempts issues no transport connect,
\* and no reconnect task brings the facade back: isConnected stays false and
\* _disconnected_by_user stays true.
C34_DisconnectStopsSleeper ==
    [][(user.op = "disconnect" /\ user'.op = "disconnect") =>
          /\ \A i \in FacadeSlots :
                reconnects[i].pc = "sleep" => reconnects'[i].pc # "connecting"
          /\ (\E i \in FacadeSlots : reconnects[i].pc = "sleep")
                => ~isConnected' /\ disconnected_by_user']_vars

\* C35: at most one facade reconnect task is alive, and at most one has a
\* transport connect outstanding.
C35_OneFacadeReconnect ==
    /\ Cardinality(FacadeActive) <= 1
    /\ Cardinality({i \in FacadeSlots : reconnects[i].pc = "connecting"}) <= 1

\* ---- properties of the handler registry ------------------------------------------------------
\* no handler twice in a list, none subscribed twice, and the handlers
\* subscribed on an event of the transport are those registered for it
HandlersOnce ==
    /\ \A e \in DOMAIN event_handlers :
          \A m, n \in DOMAIN event_handlers[e] :
              event_handlers[e][m] = event_handlers[e][n] => m = n
    /\ \A e \in ClientEvents, h \in Handlers :
          /\ client_slots[e][h] <= 1
          /\ client_slots[e][h] = 1 <=> <<e, h>> \in Registered(event_handlers)

\* the last call changed neither the registered pairs nor the subscriptions
LastWasNoOp ==
    /\ Registered(event_handlers) = handler_call.last.was
    /\ client_slots = handler_call.last.slots

\* registering a registered handler and unregistering an unknown one are no-ops
NoOpCalls ==
    LET c == handler_call.last
    IN /\ (c.op = "register" /\ <<c.event, c.handler>> \in c.was) => LastWasNoOp
       /\ (c.op = "unregister" /\ <<c.event, c.handler>> \notin c.was) => LastWasNoOp

\* the last call was unregister(e, h) and the one before register(e, h)
RoundTrip ==
    /\ handler_call.last.op = "unregister"
    /\ handler_call.prev.op = "register"
    /\ handler_call.last.event = handler_call.prev.event
    /\ handler_call.last.handler = handler_call.prev.handler

\* the registered pairs and the subscriptions are those before the register
Restored ==
    /\ Registered(event_handlers) = handler_call.prev.was
    /\ client_slots = handler_call.prev.slots

\* C36: the registry holds every (event, handler) pair at most once, in
\* _event_handlers and on the transport; registering a registered handler and
\* unregistering an unknown one change nothing; register followed by
\* unregister of the same pair restores the state before the register.
C36_HandlersDuplicateFree ==
    /\ HandlersOnce
    /\ NoOpCalls
    /\ RoundTrip => Restored

\* C36, with the round trip for a handler that was not registered before; a
\* handler that was registered is unregistered after the two calls.
C36_HandlersDuplicateFreeFresh ==
    /\ HandlersOnce
    /\ NoOpCalls
    /\ RoundTrip =>
          LET pair == <<handler_call.prev.event, handler_call.prev.handler>>
          IN IF pair \notin handler_call.prev.was THEN Restored
             ELSE Registered(event_handlers) = handler_call.prev.was \ {pair}

\* ---- properties of the reads ------------------------------------------------------------
\* a read has just run: no resolution started or ended in the step
ReadStep ==
    /\ creates' = creates /\ contract_details' = contract_details
    /\ (answer' # answer \/ ticker_ids' # ticker_ids)

\* the record a read has just worked with
ReadRecord == contract_details_of(contract_details, answer'.tid)

\* the expiries of the leaves of record d, as numbers
LeafExpiries(d) ==
    {IntOf(d.contracts[i].expiry) : i \in {j \in DOMAIN d.contracts : d.contracts[j].expiry # ""}}

\* sequence xs is in ascending order
Ascending(xs) == \A i \in 1..(Len(xs) - 1) : xs[i] <= xs[i + 1]

\* the values of sequence xs
Range(xs) == {xs[i] : i \in DOMAIN xs}

\* C32: get_expirations with expired = 0 returns in ascending order the
\* expiries of the leaves that are not before today and no other, whatever
\* the order of the leaves, and nothing for an instrument that is no future
\* or option family.
C32_ExpirationsFromToday ==
    [][ReadStep /\ answer'.op = <<"get_expirations", 0>> =>
          /\ Ascending(answer'.result)
          /\ Range(answer'.result) =
                IF ReadRecord.contracts[1].secType \in {"FUT", "FOP", "OPT"}
                THEN {e \in LeafExpiries(ReadRecord) : e >= Today}
                ELSE {}]_vars

\* the strikes of the leaves of record d from smin to smax
LeafStrikes(d, smin, smax) ==
    {d.contracts[i].strike : i \in {j \in DOMAIN d.contracts :
        /\ smin.given => smin.val <= d.contracts[j].strike
        /\ smax.given => d.contracts[j].strike <= smax.val}}

\* C33: get_strikes returns in ascending order, each once, the strikes of the
\* leaves of an option family that lie within the bounds given, and nothing
\* for an instrument that is no option.
C33_StrikesOrderedSet ==
    [][ReadStep /\ Len(answer'.op) = 3 /\ answer'.op[1] = "get_strikes" =>
          /\ \A i \in 1..(Len(answer'.result) - 1) : answer'.result[i] < answer'.result[i + 1]
          /\ Range(answer'.result) =
                IF ReadRecord.contracts[1].secType \in {"FOP", "OPT"}
                THEN LeafStrikes(ReadRecord, answer'.op[2], answer'.op[3])
                ELSE {}]_vars

\* C39: a read (contract_details, get_con_id, get_expirations, get_strikes,
\* is_multi_contract) leaves the id map, the contract map and the detail map
\* as they were, for a contract never resolved too.
C39_ReadsChangeNothing ==
    [][creates' = creates => UNCHANGED <<ticker_ids, contracts, contract_details>>]_vars

\* C38: every downloaded record lies under the id its tickerId names, and its
\* conId is that of its first contract.
C38_RecordsMatchSlots ==
    \A t \in DOMAIN contract_details :
        contract_details[t].downloaded =>
            /\ contract_details[t].tickerId = t
            /\ contract_details[t].conId = contract_details[t].contracts[1].conId

\* ---- reachable cases ----------------------------------------------------------------
\* a run without caller intervention has given up after its last attempt
W4_RunExhausted ==
    /\ run_clean
    /\ last_exit = "exhausted"
    /\ run_calls = MaxReconnectAttempts

\* a reconnect task cancelled at a suspension point has terminated and the
\* caller of disconnect() is about to resume
W7_CancelledWhileSuspended ==
    /\ caller.pc = "await_reconnect"
    /\ last_exit = "cancelled"
    /\ ~Active(tasks[caller.wait])

\* connect() has raised on a controller with nothing armed
W8_ConnectRaised ==
    /\ Returned("connect")
    /\ caller.transport = "failed"
    /\ caller.result = "ConnectionError"
    /\ disconnectedEvent = 0
    /\ connection_check_task.pc = "none"
    /\ ActiveTasks = {}

\* the poll has started a reconnect task for a drop whose notification was
\* missed
W9_PollSpawned ==
    /\ last_drop = "missed"
    /\ last_exit = "none"
    /\ caller.result = "connected"
    /\ \E i \in Slots : tasks[i].pc = "start"
    /\ connection_check_task.timer = PollInterval

\* connect(auto_reconnect=True) has set up the monitoring on a controller that
\* had it from an earlier connect()
W14_ArmedAgain ==
    /\ Returned("connect")
    /\ caller.armed = "again"
    /\ disconnectedEvent = 1
    /\ connection_check_task.pc = "sleep"

\* a reconnect task has woken up to a connection that a connect() of the
\* caller had restored, and has left its loop
W15_FoundRestored ==
    /\ last_exit = "already"
    /\ is_connected
    /\ reconnect_attempts = 0
    /\ caller.result = "connected"

\* a key has been resolved twice, and the registry has given ids to other
\* keys and stored a detail record after the id of that key
W16_ResolvedTwice ==
    \E k \in DOMAIN returned :
        /\ Len(returned[k]) >= 2
        /\ \E j \in DOMAIN contract_details : j > returned[k][1]

\* a continuous-future placeholder has been evicted, its id is still its
\* key's, and an id has been given out after it
W20_EvictedKeepsId ==
    /\ contfut.pc \in {"resolve", "done"}
    /\ contfut.result # "ValueError"
    /\ contfut.evicted \in DOMAIN ticker_ids
    /\ contfut.evicted \notin DOMAIN contracts
    /\ \E j \in DOMAIN ticker_ids : j > contfut.evicted

\* two equity tuples that differ in exchange and currency, both converted
W29_EquityPair ==
    /\ BothKeys
    /\ spec_pair[1].secType = "STK" /\ spec_pair[2].secType = "STK"
    /\ spec_pair[1].symbol = "brk b" /\ spec_pair[2].symbol = "brk b"
    /\ spec_pair[1].exchange # spec_pair[2].exchange
    /\ spec_pair[1].currency # spec_pair[2].currency
    /\ key_pair = <<"BRK_B", "BRK_B">>

\* the futures of December in the month form and of January in the day form,
\* both converted
W30_DecemberAndJanuary ==
    /\ BothKeys
    /\ spec_pair[1] = Tuple("ES", "FUT", "GLOBEX", "USD", "202512", 0, "")
    /\ spec_pair[2] = Tuple("brk b", "FUT", "GLOBEX", "USD", "20260120", 0, "")
    /\ key_pair = <<"ESZ2025_FUT", "BRK_BF2026_FUT">>

\* the id of a resolve still waiting for the gateway was asked about, after
\* an id never allocated cost nothing, and the placeholder came back
W22_AskedBeforeAnswer ==
    /\ query.arg \in {Arg("int", 1), Arg("str", "1")}
    /\ query.tid = 1
    /\ query.details = DefaultDetails
    /\ \E i \in CallSlots : creates[i].pc = "lookup" /\ creates[i].tid = 1
    /\ 1 \notin DOMAIN contract_details
    /\ 9 \notin DOMAIN ticker_ids

\* a resolve has returned whose lookup failed: its id has no detail record,
\* while the record of another key is there
W23_FailedLookupReturned ==
    /\ \A i \in CallSlots : creates[i].pc = "free"
    /\ contfut.pc = "idle"
    /\ \E k \in DOMAIN returned :
          /\ returned[k][1] \in DOMAIN ticker_ids
          /\ returned[k][1] \notin DOMAIN contract_details
          /\ contract_details_of(contract_details, returned[k][1]) = DefaultDetails
    /\ \E j \in DOMAIN contract_details : contract_details[j].downloaded

\* a continuous-future resolution has given up after its retry
W25_GaveUp ==
    /\ contfut.pc = "done"
    /\ contfut.result = "ValueError"
    /\ contfut.sent = 2
    /\ KeyOfTuple(ContFutTuple) \in {ticker_ids[i] : i \in DOMAIN ticker_ids}

W28_ComboOfResolvedLegs ==
    /\ bag.result = "contract"
    /\ Len(bag.comboLegs) = 2
    /\ \A n \in 1..2 : bag.comboLegs[n].conId # 0
    /\ bag.comboLegs[1].conId # bag.comboLegs[2].conId
    /\ bag.tid \in DOMAIN contracts
    /\ contracts[bag.tid].secType = "BAG"
    /\ bag.tid \notin DOMAIN contract_details
    /\ lookups = 2

\* a handler was registered next to another one and unregistered again, on an
\* event of the transport, and the other one is still subscribed
W36_FreshRoundTrip ==
    /\ RoundTrip
    /\ handler_call.prev.event = "disconnectedEvent"
    /\ handler_call.prev.was = {<<"disconnectedEvent", "h1">>}
    /\ handler_call.prev.handler = "h2"
    /\ <<"disconnectedEvent", "h2">> \in handler_call.last.was
    /\ Restored
    /\ client_slots["disconnectedEvent"] = [h \in Handlers |-> IF h = "h1" THEN 1 ELSE 0]

\* C37: the counter _reconnect_attempts stays within 0..max_reconnect_attempts
\* and is 0 whenever no reconnect task is active
C37_AttemptsBounded ==
    /\ reconnect_attempts \in 0..MaxReconnectAttempts
    /\ ActiveTasks = {} => reconnect_attempts = 0

\* a reconnect task has used up its attempts and left the counter at 0, with
\* no task active
W37_ExhaustedAndReset ==
    /\ last_exit = "exhausted"
    /\ ActiveTasks = {}
    /\ ~is_connected
    /\ reconnect_attempts = 0

\* the connectAsync calls outstanding on the transport: the caller's and the
\* reconnect tasks'
ConnectsInFlight ==
    Cardinality({i \in Slots : tasks[i].pc = "connecting"})
        + (IF caller.pc = "connecting" THEN 1 ELSE 0)

\* C40: at most one connectAsync call is outstanding at any time; a caller's
\* connect() and a reconnect task never both have one
C40_OneConnectInFlight == ConnectsInFlight <= 1

====
